---------------------------- MODULE Spec2Model ----------------------------
(***************************************************************************)
(* DevFriend backend: the credential lifecycle.                            *)
(*                                                                         *)
(*   secrets table       back/src/repositories/postgresql_secret_repository *)
(*   integrations table  back/src/repositories/integration_repository       *)
(*   SecretService       back/src/services/secret_service.py                *)
(*   IntegrationService  back/src/services/integration_service.py           *)
(*   provider services   back/src/services/{github,email,slack}_service.py  *)
(*   OAuth callbacks     back/src/api/oauth_controller.py                   *)
(*                                                                         *)
(* Every request handler is one action.  The handlers are written as       *)
(* operators from (tables, inputs) to (tables, response), and the action   *)
(* stores the response of the last request in resp.                        *)
(*                                                                         *)
(* The endpoints are grouped into specifications over the same state:      *)
(*   SpecSecrets     the /secrets endpoints and the callbacks that save    *)
(*   SpecResolution  secrets, integrations and credential resolution       *)
(*   SpecStore       the integration store behind its endpoints            *)
(*   SpecOAuth       the OAuth callbacks with every way they fail          *)
(*   SpecCreation    every operation that creates an integration           *)
(*   SpecLifecycle   creation, rebinding and deletion of both kinds of row *)
(*   SpecSync        the sync endpoints over usable and damaged secrets    *)
(*   SpecAuth        the protected endpoints behind get_current_user_id    *)
(*   SpecEncryption  the secret store over foreign ciphertexts             *)
(*   SpecReconnect   two GitHub callbacks handled at the same time         *)
(*   SpecFirstConnect  the same callbacks for a user without integration *)
(*   SpecAccounts    registration and Google login over the users table    *)
(*   SpecBinding     authorize and the callbacks it leads to               *)
(*   SpecNotFound    endpoints that take an integration id                 *)
(*   SpecEndpoints   the provider delete endpoints over every service type *)
(*   SpecOwnership   provider integrations over secrets of either user     *)
(*   SpecForeign     integrations bound to secrets of either user, in use  *)
(*                                                                         *)
(* Strings that matter are modelled by what the code does with them:       *)
(*   - a Python str is a record [json, d, text]: either the json.dumps of  *)
(*     a dict d, or the plain text `text` ('' and '*****' are plain);      *)
(*   - a Fernet token is a record [key, plain]; decrypt gives the plain    *)
(*     text back only under the master key, and '' otherwise.              *)
(***************************************************************************)
EXTENDS Integers, Sequences, FiniteSets, TLC

(***************************************************************************)
(* Bounds.                                                                 *)
(***************************************************************************)
MaxSecrets == 2

MaxIntegrations == 2

Users == {1, 2}

Providers == {"gmail", "github", "slack"}

ServiceTypes == Providers

NULL == 0

(***************************************************************************)
(* Python values.                                                          *)
(***************************************************************************)
NoKey == "<absent>"

None == "<None>"

EmptyDict ==
  [access_token |-> NoKey, refresh_token |-> NoKey, bot_token |-> NoKey,
   client_id |-> NoKey, client_secret |-> NoKey]

Text(t) == [json |-> FALSE, d |-> EmptyDict, text |-> t]

json_dumps(d) == [json |-> TRUE, d |-> d, text |-> ""]

\* json.loads: succeeds exactly on the strings json.dumps produced.
json_loads_ok(s) == s.json

json_loads(s) == s.d

REDACTED == Text("*****")

EmptyStr == Text("")

\* dict.get(k) is truthy: the key is present and its value is a non-empty string.
Truthy(d, k) == d[k] \notin {NoKey, None, ""}

HasKey(d, k) == d[k] # NoKey

(***************************************************************************)
(* FernetEncryptionAdapter.                                                *)
(***************************************************************************)
MasterKey == "DEVFRIEND_ENCRYPTION_KEY"

encrypt_with_other_key(data) == [key |-> "ANOTHER_KEY", plain |-> data]

encrypt(data) == [key |-> MasterKey, plain |-> data]

decrypt_any_key(token) == token.plain

decrypt(token) == IF token.key = MasterKey THEN token.plain ELSE EmptyStr

(***************************************************************************)
(* PostgreSQLSecretRepository.  S is the secrets table, a set of rows      *)
(* [id, user_id, name, encrypted_value, service_type, created_at].  ids    *)
(* come from the SERIAL sequence nid; created_at is the insertion time,    *)
(* which grows with the sequence.                                          *)
(***************************************************************************)
NoSecret ==
  [id |-> NULL, user_id |-> NULL, name |-> "", encrypted_value |-> EmptyStr,
   service_type |-> "", created_at |-> 0]

HasRow(T, id) == \E r \in T : r.id = id

RowOf(T, id) == CHOOSE r \in T : r.id = id

\* ORDER BY created_at DESC
RECURSIVE OrderByCreatedDesc(_)
OrderByCreatedDesc(T) ==
  IF T = {} THEN << >>
  ELSE LET r == CHOOSE x \in T : \A y \in T : y.created_at <= x.created_at
       IN  <<r>> \o OrderByCreatedDesc(T \ {r})

\* save: INSERT when secret.id is falsy, else UPDATE ... WHERE id.  The
\* payload is encrypted on every write.  Returns the table, the returned
\* Secret (RETURNING *, so with the ciphertext) and the next sequence value.
save(S, nid, secret) ==
  LET enc == encrypt(secret.encrypted_value) IN
  IF secret.id # NULL
  THEN IF HasRow(S, secret.id)
       THEN LET old == RowOf(S, secret.id)
                new == [old EXCEPT !.name = secret.name,
                                   !.encrypted_value = enc,
                                   !.service_type = secret.service_type]
            IN  [table |-> (S \ {old}) \cup {new}, row |-> new, nid |-> nid]
       ELSE [table |-> S, row |-> secret, nid |-> nid]
  ELSE LET new == [id |-> nid, user_id |-> secret.user_id, name |-> secret.name,
                   encrypted_value |-> enc, service_type |-> secret.service_type,
                   created_at |-> nid]
       IN  [table |-> S \cup {new}, row |-> new, nid |-> nid + 1]

find_by_id(S, secret_id) ==
  IF HasRow(S, secret_id)
  THEN [RowOf(S, secret_id) EXCEPT !.encrypted_value = decrypt(@)]
  ELSE NoSecret

find_by_user_unredacted(S, user_id) ==
  LET rows == OrderByCreatedDesc({r \in S : r.user_id = user_id})
  IN  [i \in 1..Len(rows) |-> [rows[i] EXCEPT !.encrypted_value = decrypt(@)]]

find_by_user(S, user_id) ==
  LET rows == OrderByCreatedDesc({r \in S : r.user_id = user_id})
  IN  [i \in 1..Len(rows) |-> [rows[i] EXCEPT !.encrypted_value = REDACTED]]

find_all_by_type(S, user_id, service_type) ==
  LET rows == OrderByCreatedDesc({r \in S : r.user_id = user_id
                                            /\ r.service_type = service_type})
  IN  [i \in 1..Len(rows) |-> [rows[i] EXCEPT !.encrypted_value = REDACTED]]

delete(S, secret_id) ==
  [table |-> {r \in S : r.id # secret_id}, ok |-> HasRow(S, secret_id)]

\* Called by get_dynamic_credentials and GET /secrets/get-decryptable; the
\* repository class of this tree does not define it.  Modelled from its
\* callers, which json.loads the payload of every row it returns.
find_all_by_type_decrypted(S, user_id, service_type) ==
  LET rows == OrderByCreatedDesc({r \in S : r.user_id = user_id
                                            /\ r.service_type = service_type})
  IN  [i \in 1..Len(rows) |-> [rows[i] EXCEPT !.encrypted_value = decrypt(@)]]

(***************************************************************************)
(* SecretService.  data is the request body: a record whose fields are     *)
(* NoKey when the key is not in the body.                                  *)
(***************************************************************************)
SecretResponse(s) ==
  [id |-> s.id, user_id |-> s.user_id, name |-> s.name, service_type |-> s.service_type]

create_secret_in_place(S, nid, user_id, data) ==
  LET mine == {r \in S : r.user_id = user_id /\ r.service_type = data.service_type}
      last == CHOOSE r \in mine : \A x \in mine : x.created_at <= r.created_at
  IN  save(S, nid, [id |-> IF mine = {} THEN NULL ELSE last.id,
                    user_id |-> user_id, name |-> data.name,
                    service_type |-> data.service_type,
                    encrypted_value |-> json_dumps(data.datos_secrets),
                    created_at |-> 0])

create_secret(S, nid, user_id, data) ==
  save(S, nid, [id |-> NULL, user_id |-> user_id, name |-> data.name,
                service_type |-> data.service_type,
                encrypted_value |-> json_dumps(data.datos_secrets),
                created_at |-> 0])

list_secrets(S, user_id) ==
  LET secrets == find_by_user(S, user_id)
  IN  [i \in 1..Len(secrets) |-> SecretResponse(secrets[i])]

get_secret(S, user_id, secret_id) ==
  LET secret == find_by_id(S, secret_id)
  IN  IF secret.id # NULL /\ secret.user_id = user_id THEN secret ELSE NoSecret

update_secret_unchecked(S, nid, user_id, secret_id, data) ==
  LET secret == find_by_id(S, secret_id) IN
  IF secret.id = NULL
  THEN [table |-> S, row |-> NoSecret, nid |-> nid]
  ELSE save(S, nid,
         [secret EXCEPT
            !.encrypted_value = IF data.has_datos THEN json_dumps(data.datos_secrets) ELSE @,
            !.name = IF data.name # NoKey THEN data.name ELSE @,
            !.service_type = IF data.service_type # NoKey THEN data.service_type ELSE @])

update_secret(S, nid, user_id, secret_id, data) ==
  LET secret == find_by_id(S, secret_id) IN
  IF secret.id = NULL \/ secret.user_id # user_id
  THEN [table |-> S, row |-> NoSecret, nid |-> nid]
  ELSE save(S, nid,
         [secret EXCEPT
            !.encrypted_value = IF data.has_datos THEN json_dumps(data.datos_secrets) ELSE @,
            !.name = IF data.name # NoKey THEN data.name ELSE @,
            !.service_type = IF data.service_type # NoKey THEN data.service_type ELSE @])

delete_secret_unchecked(S, user_id, secret_id) == delete(S, secret_id)

delete_secret(S, user_id, secret_id) ==
  LET secret == find_by_id(S, secret_id)
  IN  IF secret.id # NULL /\ secret.user_id = user_id
      THEN delete(S, secret_id)
      ELSE [table |-> S, ok |-> FALSE]

(***************************************************************************)
(* PostgreSQLIntegrationRepository / IntegrationRepository.  I is the      *)
(* integrations table, a set of rows                                       *)
(* [id, user_id, secret_id, service_type, status, is_active, created_at,   *)
(* updated_at]; status is the 'status' entry of the config JSON.  Time is  *)
(* counted in writes: an insert is stamped with its sequence value, and    *)
(* NOW() in an UPDATE is later than every stamp in the table.              *)
(*                                                                         *)
(* execute() commits its statement.  fetch_one() and fetch_all() run the   *)
(* statement and close the connection without a commit, so a statement     *)
(* that writes (UPDATE with RETURNING) yields the changed row to the       *)
(* caller while the table keeps its committed content.                     *)
(***************************************************************************)
NoIntegration ==
  [id |-> NULL, user_id |-> NULL, secret_id |-> NULL, service_type |-> "",
   status |-> "", is_active |-> FALSE, created_at |-> 0, updated_at |-> 0]

\* An IntegrationUpdate / partial field set: `set` names the fields the
\* request carried, `nulls` those of them whose value is null.
NoFields ==
  [set |-> {}, nulls |-> {}, secret_id |-> NULL, service_type |-> "",
   config |-> "", is_active |-> TRUE]

WithSecretId(sid) == [NoFields EXCEPT !.set = {"secret_id"}, !.secret_id = sid]

\* IntegrationUpdate(config=config), config['status'] = status
WithConfig(status) == [NoFields EXCEPT !.set = {"config"}, !.config = status]

\* the fields with a value that is not None
Provided(f) == f.set \ f.nulls

\* updated_at = NOW()
NOW(I) ==
  LET stamps == {r.created_at : r \in I} \cup {r.updated_at : r \in I}
  IN  1 + CHOOSE m \in stamps \cup {0} : \A x \in stamps : x <= m

\* the statement's effect inside its transaction
ApplyFields(row, f) ==
  [row EXCEPT
     !.secret_id = IF "secret_id" \in Provided(f) THEN f.secret_id ELSE @,
     !.service_type = IF "service_type" \in Provided(f) THEN f.service_type ELSE @,
     !.status = IF "config" \in Provided(f) THEN f.config ELSE @,
     !.is_active = IF "is_active" \in Provided(f) THEN f.is_active ELSE @]

\* what remains of a write once the connection is closed
fetch_one(I, old, new) == I

execute_insert(I, new) == I \cup {new}

execute_delete(I, integration_id, user_id) ==
  {r \in I : ~(r.id = integration_id /\ r.user_id = user_id)}

get_user_integrations(I, user_id, service_type) ==
  OrderByCreatedDesc({r \in I : r.user_id = user_id
                                /\ (service_type = None \/ r.service_type = service_type)})

get_integration_any_user(I, integration_id, user_id) ==
  IF HasRow(I, integration_id) THEN RowOf(I, integration_id) ELSE NoIntegration

get_integration(I, integration_id, user_id) ==
  IF \E r \in I : r.id = integration_id /\ r.user_id = user_id
  THEN CHOOSE r \in I : r.id = integration_id /\ r.user_id = user_id
  ELSE NoIntegration

\* INSERT (committed), then SELECT the user's newest row of that type.
repo_create_integration(I, nid, d) ==
  LET new == [id |-> nid, user_id |-> d.user_id, secret_id |-> d.secret_id,
              service_type |-> d.service_type, status |-> d.status,
              is_active |-> d.is_active, created_at |-> nid, updated_at |-> nid]
      T == execute_insert(I, new)
      mine == {r \in T : r.user_id = d.user_id /\ r.service_type = d.service_type}
  IN  [table |-> T, nid |-> nid + 1,
       row |-> CHOOSE r \in mine : \A x \in mine : x.id <= r.id]

\* ret: the returned row (NoIntegration for None); raised: psycopg2 cannot
\* adapt the dict given for config.
repo_update_integration(I, integration_id, user_id, f) ==
  LET integration == get_integration(I, integration_id, user_id)
      provided == Provided(f)
  IN  IF integration.id = NULL
      THEN [table |-> I, ret |-> NoIntegration, raised |-> FALSE]
      ELSE IF provided = {}
      THEN [table |-> I, ret |-> integration, raised |-> FALSE]
      ELSE IF "config" \in provided
      THEN [table |-> I, ret |-> NoIntegration, raised |-> TRUE]
      ELSE LET new == [ApplyFields(integration, f) EXCEPT !.updated_at = NOW(I)]
           IN  [table |-> fetch_one(I, integration, new), ret |-> new, raised |-> FALSE]

repo_delete_integration(I, integration_id, user_id) ==
  LET integration == get_integration(I, integration_id, user_id)
  IN  IF integration.id = NULL
      THEN [table |-> I, ok |-> FALSE]
      ELSE [table |-> execute_delete(I, integration_id, user_id), ok |-> TRUE]

(***************************************************************************)
(* IntegrationService(user_id).                                            *)
(***************************************************************************)
\* create_integration: the secret is looked up but its ownership check is
\* commented out; the caller's id replaces the body's user_id.
svc_create_integration(S, I, nid, user_id, d) ==
  repo_create_integration(I, nid, [d EXCEPT !.user_id = user_id])

\* update_integration: a truthy secret_id must name a secret of the caller.
svc_update_integration(S, I, user_id, integration_id, f) ==
  LET secret == find_by_id(S, f.secret_id)
  IN  IF "secret_id" \in Provided(f) /\ f.secret_id # NULL
         /\ (secret.id = NULL \/ secret.user_id # user_id)
      THEN [table |-> I, ret |-> NoIntegration, raised |-> TRUE]
      ELSE repo_update_integration(I, integration_id, user_id, f)

svc_delete_integration(I, user_id, integration_id) ==
  repo_delete_integration(I, integration_id, user_id)

\* The DELETE endpoints: what the request leaves in both tables.  row is
\* the integration as it was before the request.
delete_integration_cascading(S, I, user_id, integration_id) ==
  LET row == get_integration(I, integration_id, user_id)
      r == svc_delete_integration(I, user_id, integration_id)
  IN  [S |-> {s \in S : ~(r.ok /\ s.id = row.secret_id)}, I |-> r.table, ok |-> r.ok,
       row |-> row]

delete_integration(S, I, user_id, integration_id) ==
  LET row == get_integration(I, integration_id, user_id)
      r == svc_delete_integration(I, user_id, integration_id)
  IN  [S |-> S, I |-> r.table, ok |-> r.ok, row |-> row]

(***************************************************************************)
(* Credential resolution: GitHubService._get_github_client,                *)
(* EmailService._get_gmail_client, SlackService._get_slack_client.         *)
(***************************************************************************)
\* 'github' in s.service_type.lower(), and for Gmail 'gmail' or 'email'
TypeFamily(provider) == IF provider = "gmail" THEN {"gmail", "email"} ELSE {provider}

\* the required fields of the parsed credentials, per provider
TokenError(provider, d) ==
  CASE provider = "github" ->
         IF ~HasKey(d, "access_token") THEN "missing_access_token" ELSE "ok"
    [] provider = "gmail" ->
         IF ~HasKey(d, "refresh_token") THEN "missing_refresh_token"
         ELSE IF ~HasKey(d, "client_id") \/ ~HasKey(d, "client_secret")
              THEN "missing_required_field" ELSE "ok"
    [] OTHER ->
         IF ~Truthy(d, "bot_token") /\ ~Truthy(d, "access_token")
         THEN "missing_bot_token" ELSE "ok"

ParseCredentials_of_any_owner(provider, secret, user_id, provider_ok) ==
  IF secret.encrypted_value = EmptyStr THEN "empty_value"
  ELSE IF ~json_loads_ok(secret.encrypted_value) THEN "invalid_format_reconnect"
  ELSE IF TokenError(provider, json_loads(secret.encrypted_value)) # "ok"
       THEN TokenError(provider, json_loads(secret.encrypted_value))
  ELSE IF provider = "gmail" /\ ~provider_ok THEN "provider_failed"
  ELSE "ok"

\* from the decrypted secret to the client
ParseCredentials(provider, secret, user_id, provider_ok) ==
  IF secret.user_id # user_id THEN "access_denied"
  ELSE IF secret.encrypted_value = EmptyStr THEN "empty_value"
  ELSE IF ~json_loads_ok(secret.encrypted_value) THEN "invalid_format_reconnect"
  ELSE IF TokenError(provider, json_loads(secret.encrypted_value)) # "ok"
       THEN TokenError(provider, json_loads(secret.encrypted_value))
  \* GmailClient refreshes its token while it is constructed
  ELSE IF provider = "gmail" /\ ~provider_ok THEN "provider_failed"
  ELSE "ok"

matching_secrets_of_any_user(S, user_id, provider) ==
  SelectSeq(OrderByCreatedDesc({[r EXCEPT !.encrypted_value = REDACTED] : r \in S}),
            LAMBDA s : s.service_type \in TypeFamily(provider))

\* all_secrets = find_by_user(user_id), filtered by the provider's type
matching_secrets(S, user_id, provider) ==
  SelectSeq(find_by_user(S, user_id), LAMBDA s : s.service_type \in TypeFamily(provider))

\* result: "ok" or the error raised; secret_id: the secret the client was
\* built from; table: the integrations table afterwards.
get_client(S, I, user_id, provider, integration_id, provider_ok) ==
  LET integration == get_integration(I, integration_id, user_id)
      secret_id == integration.secret_id
      secret == find_by_id(S, secret_id)
      matching == matching_secrets(S, user_id, provider)
  IN  IF integration.id = NULL \/ integration.service_type # provider
      THEN [table |-> I, result |-> "integration_not_found", secret_id |-> NULL]
      ELSE IF secret_id = NULL
      THEN [table |-> I, result |-> "no_credentials_reconnect", secret_id |-> NULL]
      ELSE IF secret.id # NULL
      THEN [table |-> I, result |-> ParseCredentials(provider, secret, user_id, provider_ok),
            secret_id |-> secret.id]
      ELSE IF Len(matching) = 0
      THEN [table |-> I, result |-> "no_secret_connect_oauth", secret_id |-> NULL]
      ELSE LET valid_secret_id == matching[1].id
               upd == svc_update_integration(S, I, user_id, integration_id,
                        WithSecretId(valid_secret_id))
               found == find_by_id(S, valid_secret_id)
           IN  IF upd.raised
               THEN [table |-> upd.table, result |-> "update_raised", secret_id |-> NULL]
               ELSE [table |-> upd.table,
                     result |-> ParseCredentials(provider, found, user_id, provider_ok),
                     secret_id |-> valid_secret_id]

\* the errors that ask the user to connect the account again
ReconnectErrors == {"no_credentials_reconnect", "no_secret_connect_oauth"}

(***************************************************************************)
(* sync_emails / sync_github / sync_slack.                                 *)
(***************************************************************************)
\* 'credentials' in str(e).lower() or 'not found' in str(e).lower(), by the
\* text of each error; d is the parsed payload of the secret in use.
CredentialMessage(result, d) ==
  \/ result \in {"integration_not_found", "no_credentials_reconnect",
                 "no_secret_connect_oauth", "access_denied",
                 "invalid_format_reconnect", "missing_access_token",
                 "missing_bot_token", "update_raised"}
  \* 'Missing refresh_token and OAuth credentials (client_id, client_secret)'
  \/ /\ result = "missing_refresh_token"
     /\ ~(HasKey(d, "client_id") /\ HasKey(d, "client_secret"))

\* result: "ok" or the error raised to the endpoint.  profile_ok: the
\* profile call made with the client succeeds.
sync(S, I, user_id, provider, integration_id, provider_ok, profile_ok) ==
  LET c == get_client(S, I, user_id, provider, integration_id, provider_ok)
      d == json_loads(find_by_id(S, c.secret_id).encrypted_value)
      verified == c.result = "ok" /\ profile_ok
      connected == svc_update_integration(S, c.table, user_id, integration_id,
                                          WithConfig("connected"))
      error == IF c.result # "ok" THEN c.result
               ELSE IF ~profile_ok THEN "provider_failed"
               ELSE IF connected.raised THEN "cannot_adapt_dict"
               ELSE "ok"
      T1 == IF verified THEN connected.table ELSE c.table
      \* the except clause: a second update, whose own failure is swallowed
      failed == svc_update_integration(S, T1, user_id, integration_id,
                                       WithConfig("error"))
  IN  [table |-> IF error # "ok" /\ ~CredentialMessage(error, d) THEN failed.table ELSE T1,
       result |-> error, secret_id |-> c.secret_id, verified |-> verified]

(***************************************************************************)
(* create_email_integration / create_github_integration /                  *)
(* create_slack_integration.                                               *)
(***************************************************************************)
create_provider_integration_unchecked(S, I, nid, user_id, provider, credential_id, profile_ok) ==
  LET credential == find_by_id(S, credential_id)
      parsed == json_loads_ok(credential.encrypted_value)
                /\ TokenError(provider, json_loads(credential.encrypted_value)) = "ok"
      status == IF credential_id = NULL THEN "pending"
                ELSE IF parsed /\ profile_ok THEN "connected" ELSE "error"
      c == svc_create_integration(S, I, nid, user_id,
             [user_id |-> user_id, secret_id |-> credential_id,
              service_type |-> provider, status |-> status, is_active |-> TRUE])
  IN  [table |-> c.table, nid |-> c.nid, row |-> c.row, raised |-> FALSE]

create_provider_integration(S, I, nid, user_id, provider, credential_id, profile_ok) ==
  LET credential == find_by_id(S, credential_id)
      parsed == json_loads_ok(credential.encrypted_value)
                /\ TokenError(provider, json_loads(credential.encrypted_value)) = "ok"
      status == IF credential_id = NULL THEN "pending"
                ELSE IF parsed /\ profile_ok THEN "connected" ELSE "error"
  IN  IF credential_id # NULL /\ (credential.id = NULL \/ credential.user_id # user_id)
      THEN [table |-> I, nid |-> nid, row |-> NoIntegration, raised |-> TRUE]
      ELSE LET c == svc_create_integration(S, I, nid, user_id,
                      [user_id |-> user_id, secret_id |-> credential_id,
                       service_type |-> provider, status |-> status, is_active |-> TRUE])
           IN  [table |-> c.table, nid |-> c.nid, row |-> c.row, raised |-> FALSE]

(***************************************************************************)
(* Responses.  One record shape for every handler:                         *)
(*   kind    "redirect" (RedirectResponse to the frontend), "json" (a      *)
(*           body with status 2xx) or "http_error" (HTTPException);        *)
(*   ret     what the service or store call returned;                      *)
(*   the oauth_* / secret_id / integration_id / warning / message fields   *)
(*   are the query parameters of a redirect;                               *)
(*   headers the response headers that matter (WWW-Authenticate);          *)
(*   trace   the steps the handler went through (not part of the answer).  *)
(***************************************************************************)
NoResp ==
  [op |-> "", user |-> NULL, target |-> NULL, kind |-> "", status |-> 0,
   ret |-> "", oauth_error |-> "", oauth_success |-> FALSE, secret_id |-> NULL,
   integration_id |-> NULL, warning |-> "", message |-> "", body |-> << >>,
   trace |-> {}, headers |-> {}]

Json(op, user, target, status, ret) ==
  [NoResp EXCEPT !.op = op, !.user = user, !.target = target, !.kind = "json",
                 !.status = status, !.ret = ret]

HttpError(op, user, target, status, ret) ==
  [NoResp EXCEPT !.op = op, !.user = user, !.target = target, !.kind = "http_error",
                 !.status = status, !.ret = ret]

RedirectError(op, user, reason) ==
  [NoResp EXCEPT !.op = op, !.user = user, !.kind = "redirect", !.status = 307,
                 !.oauth_error = reason]

RedirectSuccess(op, user, secret_id, integration_id, warning, message) ==
  [NoResp EXCEPT !.op = op, !.user = user, !.kind = "redirect", !.status = 307,
                 !.oauth_success = TRUE, !.secret_id = secret_id,
                 !.integration_id = integration_id, !.warning = warning,
                 !.message = message]

(***************************************************************************)
(* OAuthConfig.  env[p] tells whether the environment sets the client id   *)
(* and secret of provider p.                                               *)
(***************************************************************************)
EnvClientId(env, provider) == IF env[provider] THEN "env_client_id" ELSE None

EnvClientSecret(env, provider) == IF env[provider] THEN "env_client_secret" ELSE None

\* validate_google / validate_github / validate_slack
validate(env, provider) == env[provider]

get_dynamic_credentials_with_default(S, env, user_id, provider) ==
  [client_id |-> "default_client_id", client_secret |-> "default_client_secret"]

get_dynamic_credentials(S, env, user_id, provider) ==
  LET secrets == find_all_by_type_decrypted(S, user_id, provider)
      usable == SelectSeq(secrets, LAMBDA s :
                  /\ json_loads_ok(s.encrypted_value)
                  /\ Truthy(json_loads(s.encrypted_value), "client_id")
                  /\ Truthy(json_loads(s.encrypted_value), "client_secret"))
  IN  IF Len(usable) > 0
      THEN [client_id |-> json_loads(usable[1].encrypted_value).client_id,
            client_secret |-> json_loads(usable[1].encrypted_value).client_secret]
      ELSE [client_id |-> EnvClientId(env, provider),
            client_secret |-> EnvClientSecret(env, provider)]

NoCredentials(creds) == creds.client_id \in {None, ""} \/ creds.client_secret \in {None, ""}

\* int(state)
IsInt(state) == state \in {"1", "2"}

ParseInt_as_first_user(state) == 1

ParseInt(state) == IF state = "1" THEN 1 ELSE 2

\* str(current_user_id)
Str(user_id) == IF user_id = 1 THEN "1" ELSE "2"

\* GET /auth/{google,github,slack}/authorize: the answer carries the
\* authorization URL, whose state parameter is in message
authorize(S, env, current_user_id, provider) ==
  IF NoCredentials(get_dynamic_credentials(S, env, current_user_id, provider))
  THEN HttpError("authorize", current_user_id, NULL, 500, "not_configured")
  ELSE [Json("authorize", current_user_id, NULL, 200, "auth_url")
          EXCEPT !.message = Str(current_user_id)]

(***************************************************************************)
(* Authentication (middleware/auth_middleware.py).  A request carries a    *)
(* bearer token [kind, sub], or no Authorization header at all:            *)
(*   kind  "valid" (signed with the server's key and not expired),         *)
(*         "invalid", "expired", or "missing";                             *)
(*   sub   the 'sub' claim, NoKey when the payload has none.               *)
(***************************************************************************)
NoAuthorization == [kind |-> "missing", sub |-> NoKey]

Tokens ==
  {NoAuthorization, [kind |-> "invalid", sub |-> "1"], [kind |-> "expired", sub |-> "1"]}
    \cup [kind : {"valid"}, sub : {NoKey, "1", "2", "x"}]

\* security = HTTPBearer(): FastAPI answers a request without bearer
\* credentials itself, with 403 'Not authenticated' or, in later releases,
\* with 401 and WWW-Authenticate: Bearer.
NotAuthenticated ==
  {[status |-> 403, headers |-> {}],
   [status |-> 401, headers |-> {"WWW-Authenticate: Bearer"}]}

\* src/utils/security.py is not part of this tree; by its callers and its
\* tests it returns the payload of a valid token and None otherwise.
decode_access_token(token) ==
  IF token.kind = "valid" THEN [none |-> FALSE, sub |-> token.sub]
  ELSE [none |-> TRUE, sub |-> NoKey]

Unauthorized(detail) ==
  [ok |-> FALSE, user_id |-> NULL, status |-> 401,
   headers |-> {"WWW-Authenticate: Bearer"}, detail |-> detail]

get_current_user_id(token, bearer) ==
  LET payload == decode_access_token(token) IN
  IF token.kind = "missing"
  THEN [ok |-> FALSE, user_id |-> NULL, status |-> bearer.status,
        headers |-> bearer.headers, detail |-> "Not authenticated"]
  ELSE IF payload.none THEN Unauthorized("Invalid or expired token")
  ELSE IF payload.sub = NoKey THEN Unauthorized("Invalid token payload")
  ELSE IF ~IsInt(payload.sub) THEN Unauthorized("Invalid user ID in token")
  ELSE [ok |-> TRUE, user_id |-> ParseInt(payload.sub), status |-> 200,
        headers |-> {}, detail |-> ""]

\* The token endpoint's answer q.exchange:
\*   "raise"          the request failed (network error, HTTP error status)
\*   "error_payload"  a 200 answer that carries an error and no token
\*   "no_token"       a well-formed answer without any token
\*   "access_only"    access token (Slack: bot token) only
\*   "full"           access and refresh token (Slack: bot and user token)
HasAccessToken(q) == q.exchange \in {"access_only", "full"}

HasRefreshToken(q) == q.exchange = "full"

Out(S, sid, I, iid, r) == [S |-> S, sid |-> sid, I |-> I, iid |-> iid, resp |-> r]

Traced(r, steps) == [r EXCEPT !.trace = steps]

(***************************************************************************)
(* The tail of google_callback, github_callback and slack_callback: the    *)
(* secret is saved, now create or update the integration.  q.integ_fails   *)
(* is a database error inside that block.                                  *)
(***************************************************************************)
reconcile_failing(op, S, sid, I, iid, user_id, provider, secret_id, q, steps) ==
  LET existing == get_user_integrations(I, user_id, provider)
      upd == svc_update_integration(S, I, user_id, existing[1].id,
               WithSecretId(secret_id))
      crt == create_provider_integration(S, I, iid, user_id, provider, secret_id, q.profile_ok)
  IN  IF q.integ_fails
      THEN Out(S, sid, I, iid,
             Traced(RedirectError(op, user_id, "integration_failed"),
                    steps \cup {"integration_raised"}))
      ELSE IF Len(existing) > 0
      THEN Out(S, sid, upd.table, iid,
             Traced(RedirectSuccess(op, user_id, NULL, upd.ret.id, "", ""),
                    steps \cup {"integration_updated"}))
      ELSE Out(S, sid, crt.table, crt.nid,
             Traced(RedirectSuccess(op, user_id, NULL, crt.row.id, "", ""),
                    steps \cup {"integration_created"}))

reconcile_always_creating(op, S, sid, I, iid, user_id, provider, secret_id, q, steps) ==
  LET crt == create_provider_integration(S, I, iid, user_id, provider, secret_id, q.profile_ok)
      warn == Out(S, sid, I, iid,
                Traced(RedirectSuccess(op, user_id, secret_id, NULL,
                                       "integration_failed", ""),
                       steps \cup {"integration_raised"}))
  IN  IF q.integ_fails \/ crt.raised
      THEN warn
      ELSE Out(S, sid, crt.table, crt.nid,
             Traced(RedirectSuccess(op, user_id, NULL, crt.row.id, "", ""),
                    steps \cup {"integration_created"}))

reconcile(op, S, sid, I, iid, user_id, provider, secret_id, q, steps) ==
  LET existing == get_user_integrations(I, user_id, provider)
      upd == svc_update_integration(S, I, user_id, existing[1].id,
               WithSecretId(secret_id))
      crt == create_provider_integration(S, I, iid, user_id, provider, secret_id, q.profile_ok)
      warn(T, n) == Out(S, sid, T, n,
                      Traced(RedirectSuccess(op, user_id, secret_id, NULL,
                                             "integration_failed", ""),
                             steps \cup {"integration_raised"}))
  IN  IF secret_id = NULL
      THEN Out(S, sid, I, iid,
             Traced(RedirectSuccess(op, user_id, secret_id, NULL, "", ""), steps))
      ELSE IF q.integ_fails THEN warn(I, iid)
      ELSE IF Len(existing) > 0
      THEN IF upd.raised \/ upd.ret.id = NULL
           THEN warn(upd.table, iid)
           ELSE Out(S, sid, upd.table, iid,
                  Traced(RedirectSuccess(op, user_id, NULL, upd.ret.id, "", ""),
                         steps \cup {"integration_updated"}))
      ELSE IF crt.raised
           THEN warn(crt.table, iid)
           ELSE Out(S, sid, crt.table, crt.nid,
                  Traced(RedirectSuccess(op, user_id, NULL, crt.row.id, "", ""),
                         steps \cup {"integration_created"}))

(***************************************************************************)
(* GET /auth/github/callback.  The whole body is inside try/except, so any *)
(* other exception ends in oauth_error=unexpected_error.                   *)
(***************************************************************************)
github_callback(S, sid, I, iid, env, q) ==
  LET op == "github_callback"
      user_id == ParseInt(q.state)
      creds == get_dynamic_credentials(S, env, user_id, "github")
      secret_data == [name |-> IF q.userinfo_ok THEN "GitHub - octocat" ELSE "GitHub - github",
                      service_type |-> "github",
                      datos_secrets |-> [EmptyDict EXCEPT !.access_token = "gh_access_token",
                                                          !.client_id = creds.client_id,
                                                          !.client_secret = creds.client_secret]]
      saved == create_secret(S, sid, user_id, secret_data)
  IN  IF q.error # None
      THEN Out(S, sid, I, iid, Traced(RedirectError(op, NULL, q.error), {"provider_error"}))
      ELSE IF q.code = ""
      THEN Out(S, sid, I, iid, Traced(RedirectError(op, NULL, "no_code"), {"no_code"}))
      ELSE IF ~IsInt(q.state)
      THEN Out(S, sid, I, iid, Traced(RedirectError(op, NULL, "invalid_state"), {"invalid_state"}))
      ELSE IF NoCredentials(creds)
      THEN Out(S, sid, I, iid, Traced(RedirectError(op, user_id, "config_error"), {"no_client_credentials"}))
      ELSE IF q.exchange = "raise"
      THEN Out(S, sid, I, iid,
             Traced(RedirectError(op, user_id, "token_exchange_failed"), {"exchange_failed"}))
      ELSE IF ~HasAccessToken(q)
      THEN Out(S, sid, I, iid,
             Traced(RedirectError(op, user_id, "no_access_token"), {"no_token"}))
      ELSE IF q.save_fails
      THEN Out(S, sid, I, iid,
             Traced(RedirectError(op, user_id, "secret_creation_failed"),
                    {"exchanged", "save_failed"}))
      ELSE reconcile(op, saved.table, saved.nid, I, iid, user_id, "github",
                     saved.row.id, q, {"exchanged", "secret_saved"})

(***************************************************************************)
(* GET /auth/slack/callback.  No enclosing try/except.                     *)
(***************************************************************************)
slack_callback(S, sid, I, iid, env, q) ==
  LET op == "slack_callback"
      user_id == ParseInt(q.state)
      creds == get_dynamic_credentials(S, env, user_id, "slack")
      bot_token == "sl_bot_token"
      user_access_token == IF q.exchange = "full" THEN "sl_user_token" ELSE None
      access_token == bot_token
      secret_data == [name |-> "Slack - team",
                      service_type |-> "slack",
                      datos_secrets |->
                        [EmptyDict EXCEPT
                           !.bot_token = bot_token,
                           !.access_token = IF user_access_token # None
                                            THEN user_access_token ELSE access_token,
                           !.client_id = EnvClientId(env, "slack"),
                           !.client_secret = EnvClientSecret(env, "slack")]]
      saved == create_secret(S, sid, user_id, secret_data)
  IN  IF q.error # None
      THEN Out(S, sid, I, iid, Traced(RedirectError(op, NULL, q.error), {"provider_error"}))
      ELSE IF q.code = ""
      THEN Out(S, sid, I, iid, Traced(RedirectError(op, NULL, "no_code"), {"no_code"}))
      ELSE IF ~IsInt(q.state)
      THEN Out(S, sid, I, iid, Traced(RedirectError(op, NULL, "invalid_state"), {"invalid_state"}))
      ELSE IF ~validate(env, "slack")
      THEN Out(S, sid, I, iid, Traced(RedirectError(op, user_id, "config_error"), {"no_client_credentials"}))
      ELSE IF q.exchange = "raise"
      THEN Out(S, sid, I, iid,
             Traced(RedirectError(op, user_id, "token_exchange_failed"), {"exchange_failed"}))
      ELSE IF q.exchange = "error_payload"
      THEN Out(S, sid, I, iid,
             Traced(RedirectError(op, user_id, "invalid_code"), {"exchange_failed"}))
      ELSE IF ~HasAccessToken(q)
      THEN Out(S, sid, I, iid,
             Traced(RedirectError(op, user_id, "no_access_token"), {"no_token"}))
      ELSE IF q.save_fails
      THEN Out(S, sid, I, iid,
             Traced(RedirectError(op, user_id, "secret_creation_failed"),
                    {"exchanged", "save_failed"}))
      ELSE reconcile(op, saved.table, saved.nid, I, iid, user_id, "slack",
                     saved.row.id, q, {"exchanged", "secret_saved"})

(***************************************************************************)
(* GET /auth/google/callback.  Its failures are raised as HTTPException.   *)
(***************************************************************************)
\* the user's Gmail secret that already holds a refresh token, looked for
\* in what find_by_user returns
ExistingGmailSecret(S, user_id) ==
  SelectSeq(find_by_user(S, user_id), LAMBDA s :
    /\ s.service_type \in {"gmail", "email"}
    /\ json_loads_ok(s.encrypted_value)
    /\ Truthy(json_loads(s.encrypted_value), "refresh_token"))

google_callback(S, sid, I, iid, env, q) ==
  LET op == "google_callback"
      user_id == ParseInt(q.state)
      creds == get_dynamic_credentials(S, env, user_id, "gmail")
      gmail_secret == ExistingGmailSecret(S, user_id)
      secret_data == [name |-> IF q.userinfo_ok THEN "Gmail - user@gmail.com" ELSE "Gmail - gmail",
                      service_type |-> "gmail",
                      datos_secrets |-> [EmptyDict EXCEPT
                                           !.client_id = EnvClientId(env, "gmail"),
                                           !.client_secret = EnvClientSecret(env, "gmail"),
                                           !.refresh_token = "g_refresh_token"]]
      saved == create_secret(S, sid, user_id, secret_data)
  IN  IF q.error # None
      THEN Out(S, sid, I, iid, Traced(HttpError(op, NULL, NULL, 400, ""), {"provider_error"}))
      ELSE IF q.code = ""
      THEN Out(S, sid, I, iid, Traced(HttpError(op, NULL, NULL, 400, ""), {"no_code"}))
      ELSE IF ~IsInt(q.state)
      THEN Out(S, sid, I, iid, Traced(HttpError(op, NULL, NULL, 400, ""), {"invalid_state"}))
      ELSE IF ~validate(env, "gmail")
      THEN Out(S, sid, I, iid, Traced(HttpError(op, user_id, NULL, 500, ""), {"no_client_credentials"}))
      ELSE IF q.exchange = "raise"
      THEN Out(S, sid, I, iid, Traced(HttpError(op, user_id, NULL, 500, ""), {"exchange_failed"}))
      ELSE IF ~HasRefreshToken(q)
      THEN IF Len(gmail_secret) > 0
           THEN Out(S, sid, I, iid,
                  Traced(RedirectSuccess(op, user_id, gmail_secret[1].id, NULL, "",
                                         "already_authorized"),
                         {"exchanged", "no_refresh_token"}))
           ELSE Out(S, sid, I, iid,
                  Traced(HttpError(op, user_id, NULL, 400, ""),
                         {"exchanged", "no_refresh_token"}))
      ELSE IF q.save_fails
      THEN Out(S, sid, I, iid,
             Traced(HttpError(op, user_id, NULL, 500, ""), {"exchanged", "save_failed"}))
      ELSE reconcile(op, saved.table, saved.nid, I, iid, user_id, "gmail",
                     saved.row.id, q, {"exchanged", "secret_saved"})

(***************************************************************************)
(* PostgreSQLUserRepository.  U is the users table, a set of rows          *)
(* [id, email, is_active]; email is declared NOT NULL UNIQUE.  An INSERT   *)
(* takes its id from the sequence before the constraint is checked, so a   *)
(* refused INSERT uses up an id.                                           *)
(***************************************************************************)
NoUser == [id |-> NULL, email |-> "", is_active |-> FALSE]

user_find_by_email(U, email) ==
  IF \E r \in U : r.email = email THEN CHOOSE r \in U : r.email = email ELSE NoUser

user_save_without_unique(U, nid, email) ==
  LET new == [id |-> nid, email |-> email, is_active |-> TRUE]
  IN  [table |-> U \cup {new}, nid |-> nid + 1, row |-> new, raised |-> FALSE]

\* save of a User without id: INSERT ... RETURNING *; raised is the
\* IntegrityError of the UNIQUE constraint
user_save(U, nid, email) ==
  LET new == [id |-> nid, email |-> email, is_active |-> TRUE]
  IN  IF \E r \in U : r.email = email
      THEN [table |-> U, nid |-> nid + 1, row |-> NoUser, raised |-> TRUE]
      ELSE [table |-> U \cup {new}, nid |-> nid + 1, row |-> new, raised |-> FALSE]

(***************************************************************************)
(* State.  A behaviour exercises one provider, chosen at the start: the     *)
(* secrets and integrations it creates are of that provider's type.        *)
(***************************************************************************)
VARIABLES secrets, nextSecretId, integrations, nextIntegrationId, env, provider, resp,
          calls, users, nextUserId, signups

vars ==
  <<secrets, nextSecretId, integrations, nextIntegrationId, env, provider, resp, calls,
    users, nextUserId, signups>>

\* the users table, its SERIAL sequence and the requests that write to it
accounts == <<users, nextUserId, signups>>

\* signups[c] is request c to POST /auth/register or to
\* GET /auth/google/login/callback: pc is the statement it has reached,
\* email the address it is for and result its response.
SignupIds == {1, 2, 3}

NoSignup == [pc |-> "idle", kind |-> "", email |-> "", result |-> NoResp]

\* calls[c] is callback request c while it is being handled: pc is the
\* statement it has reached, the other fields are its local variables, order
\* tells how many requests had written the integration when it did, and
\* result is its response.
CallIds == {1, 2}

NoCall ==
  [pc |-> "idle", user_id |-> NULL, client_id |-> None, client_secret |-> None,
   secret_id |-> NULL, existing |-> NULL, order |-> 0, result |-> NoResp]

\* request inputs
SecretIds == 1..MaxSecrets

IntegrationIds == 1..MaxIntegrations

TokenOnly == [EmptyDict EXCEPT !.access_token = "x"]

CredsOnly == [EmptyDict EXCEPT !.client_id = "user_client_id",
                               !.client_secret = "user_client_secret"]

\* a hand-made payload with the fields the provider's client needs
GmailManual == [EmptyDict EXCEPT !.refresh_token = "r", !.client_id = "user_client_id",
                                 !.client_secret = "user_client_secret"]

UsablePayload(p) == IF p = "gmail" THEN GmailManual ELSE TokenOnly

ManualPayloads == {TokenOnly, CredsOnly}

UpdateBodies ==
  {[has_datos |-> FALSE, datos_secrets |-> EmptyDict, name |-> "renamed", service_type |-> NoKey]}

FieldSets ==
  {NoFields, [NoFields EXCEPT !.set = {"is_active"}, !.is_active = FALSE],
   [NoFields EXCEPT !.set = {"service_type"}, !.nulls = {"service_type"}],
   [NoFields EXCEPT !.set = {"config"}, !.config = "connected"]}
    \cup {WithSecretId(s) : s \in SecretIds}

\* Callback requests: the happy request, and the requests that differ from
\* it in the step that fails.
GoodQuery ==
  [error |-> None, code |-> "abc", state |-> "1", exchange |-> "full",
   userinfo_ok |-> TRUE, save_fails |-> FALSE, integ_fails |-> FALSE,
   profile_ok |-> TRUE]

Queries ==
  {[GoodQuery EXCEPT !.error = "access_denied"], [GoodQuery EXCEPT !.code = ""],
   [GoodQuery EXCEPT !.state = "x"]}
    \cup {[GoodQuery EXCEPT !.state = s, !.exchange = e] :
            s \in {"1", "2"}, e \in {"raise", "error_payload", "no_token", "access_only", "full"}}
    \cup {[GoodQuery EXCEPT !.state = s, !.save_fails = TRUE] : s \in {"1", "2"}}
    \cup {[GoodQuery EXCEPT !.state = s, !.integ_fails = TRUE] : s \in {"1", "2"}}
    \cup {[GoodQuery EXCEPT !.state = s, !.profile_ok = FALSE] : s \in {"1", "2"}}

\* the environment either configures the OAuth apps of all providers or none
EnvChoices == {[p \in Providers |-> b] : b \in BOOLEAN}

Init ==
  /\ secrets = {}
  /\ nextSecretId = 1
  /\ integrations = {}
  /\ nextIntegrationId = 1
  /\ env \in EnvChoices
  /\ provider \in Providers
  /\ resp = NoResp
  /\ calls = [c \in CallIds |-> NoCall]
  /\ users = {}
  /\ nextUserId = 1
  /\ signups = [c \in SignupIds |-> NoSignup]

(***************************************************************************)
(* /secrets endpoints (secret_controller.py).                              *)
(***************************************************************************)
CreateSecret(u, t, d) ==
  /\ nextSecretId <= MaxSecrets
  /\ LET r == create_secret(secrets, nextSecretId, u,
                [name |-> "manual", service_type |-> t, datos_secrets |-> d])
     IN  /\ secrets' = r.table
         /\ nextSecretId' = r.nid
         /\ resp' = Json("create_secret", u, r.row.id, 201, "created")
  /\ UNCHANGED <<integrations, nextIntegrationId, env, provider, calls, accounts>>

ListSecrets(u) ==
  /\ resp' = [Json("list_secrets", u, NULL, 200, "") EXCEPT !.body = list_secrets(secrets, u)]
  /\ UNCHANGED <<secrets, nextSecretId, integrations, nextIntegrationId, env, provider, calls, accounts>>

GetSecret(u, id) ==
  /\ LET secret == get_secret(secrets, u, id)
     IN  resp' = IF secret.id = NULL
                 THEN HttpError("get_secret", u, id, 404, "none")
                 ELSE [Json("get_secret", u, id, 200, "secret")
                         EXCEPT !.body = <<SecretResponse(secret)>>]
  /\ UNCHANGED <<secrets, nextSecretId, integrations, nextIntegrationId, env, provider, calls, accounts>>

UpdateSecret(u, id, data) ==
  /\ LET r == update_secret(secrets, nextSecretId, u, id, data)
     IN  /\ secrets' = r.table
         /\ resp' = IF r.row.id = NULL
                    THEN HttpError("update_secret", u, id, 404, "none")
                    ELSE Json("update_secret", u, id, 200, "secret")
  /\ UNCHANGED <<nextSecretId, integrations, nextIntegrationId, env, provider, calls, accounts>>

DeleteSecret(u, id) ==
  /\ LET r == delete_secret(secrets, u, id)
     IN  /\ secrets' = r.table
         /\ resp' = IF r.ok
                    THEN Json("delete_secret", u, id, 200, "true")
                    ELSE HttpError("delete_secret", u, id, 404, "false")
  /\ UNCHANGED <<nextSecretId, integrations, nextIntegrationId, env, provider, calls, accounts>>

(***************************************************************************)
(* Damage to a stored ciphertext from outside the program: the row was     *)
(* written under another master key, or its content is not the JSON the    *)
(* services write.                                                         *)
(***************************************************************************)
Damages == {"undecryptable", "not_json"}

Damaged(how, token) ==
  IF how = "undecryptable" THEN [token EXCEPT !.key = "ANOTHER_KEY"]
  ELSE encrypt(Text("not json"))

CorruptSecret(s, how) ==
  /\ s \in secrets
  /\ secrets' = (secrets \ {s}) \cup {[s EXCEPT !.encrypted_value = Damaged(how, @)]}
  /\ resp' = [NoResp EXCEPT !.op = "corrupt_secret", !.target = s.id]
  /\ UNCHANGED <<nextSecretId, integrations, nextIntegrationId, env, provider, calls, accounts>>

(***************************************************************************)
(* Provider endpoints (email_controller.py, github_controller.py,          *)
(* messages_controller.py).  Each handler body sits in                     *)
(* try / except Exception -> HTTPException(500), which also catches the    *)
(* HTTPException(404) raised inside the try block.                         *)
(***************************************************************************)
\* POST /{email,github,messages}/integrations
CreateProviderIntegration(u, p, credential_id, profile_ok) ==
  /\ nextIntegrationId <= MaxIntegrations
  /\ LET r == create_provider_integration(secrets, integrations, nextIntegrationId,
                                          u, p, credential_id, profile_ok)
     IN  /\ integrations' = r.table
         /\ nextIntegrationId' = r.nid
         /\ resp' = IF r.raised
                    THEN HttpError("create_provider_integration", u, credential_id, 500,
                                   "credential_not_found_or_access_denied")
                    ELSE [Json("create_provider_integration", u, credential_id, 200, "row")
                            EXCEPT !.integration_id = r.row.id]
  /\ UNCHANGED <<secrets, nextSecretId, env, provider, calls, accounts>>

\* DELETE /{email,github,messages}/integrations/{id}
DeleteProviderIntegration(u, id) ==
  /\ LET r == delete_integration(secrets, integrations, u, id)
     IN  /\ secrets' = r.S
         /\ integrations' = r.I
         /\ resp' = IF r.ok
                    THEN [Json("delete_integration", u, id, 200, "true")
                            EXCEPT !.secret_id = r.row.secret_id]
                    ELSE HttpError("delete_integration", u, id, 500, "false")
  /\ UNCHANGED <<nextSecretId, nextIntegrationId, env, provider, calls, accounts>>

\* GET .../integrations/{id}/repos, /emails, /channels, /user: resolve the
\* credentials, then call the provider.
UseIntegration(u, p, id, provider_ok) ==
  /\ LET r == get_client(secrets, integrations, u, p, id, provider_ok)
     IN  /\ integrations' = r.table
         /\ resp' = IF r.result = "ok" /\ provider_ok
                    THEN [Json("get_client", u, id, 200, r.result)
                            EXCEPT !.secret_id = r.secret_id, !.message = p]
                    ELSE [HttpError("get_client", u, id, 500, r.result)
                            EXCEPT !.secret_id = r.secret_id, !.message = p]
  /\ UNCHANGED <<secrets, nextSecretId, nextIntegrationId, env, provider, calls, accounts>>

\* POST .../integrations/{id}/sync
SyncIntegration(u, p, id, provider_ok, profile_ok) ==
  /\ LET r == sync(secrets, integrations, u, p, id, provider_ok, profile_ok)
     IN  /\ integrations' = r.table
         /\ resp' = [(IF r.result = "ok" THEN Json("sync", u, id, 200, r.result)
                                          ELSE HttpError("sync", u, id, 500, r.result))
                       EXCEPT !.secret_id = r.secret_id, !.message = p,
                              !.trace = IF r.verified THEN {"verified"} ELSE {}]
  /\ UNCHANGED <<secrets, nextSecretId, nextIntegrationId, env, provider, calls, accounts>>

(***************************************************************************)
(* /integrations endpoints (integration_controller.py).  The handlers      *)
(* await the plain return value of the service method, which raises        *)
(* TypeError after the service call has run; the except clause turns it    *)
(* into HTTPException(500).                                                *)
(***************************************************************************)
\* POST /integrations
PostIntegration(u, body) ==
  /\ nextIntegrationId <= MaxIntegrations
  /\ LET r == svc_create_integration(secrets, integrations, nextIntegrationId, u, body)
     IN  /\ integrations' = r.table
         /\ nextIntegrationId' = r.nid
         /\ resp' = [HttpError("post_integration", u, NULL, 500, "row")
                       EXCEPT !.integration_id = r.row.id]
  /\ UNCHANGED <<secrets, nextSecretId, env, provider, calls, accounts>>

\* GET /integrations/{id}: IntegrationService(current_user.id) on an int
\* raises AttributeError inside the try block
GetIntegration(u, id) ==
  /\ resp' = HttpError("get_integration", u, id, 500, "raised")
  /\ UNCHANGED <<secrets, nextSecretId, integrations, nextIntegrationId, env, provider,
                 calls, accounts>>

\* PUT /integrations/{id}
PutIntegration(u, id, f) ==
  /\ LET r == svc_update_integration(secrets, integrations, u, id, f)
     IN  /\ integrations' = r.table
         /\ resp' = HttpError("put_integration", u, id, 500,
                              IF r.raised THEN "raised"
                              ELSE IF r.ret.id = NULL THEN "none" ELSE "row")
  /\ UNCHANGED <<secrets, nextSecretId, nextIntegrationId, env, provider, calls, accounts>>

\* DELETE /integrations/{id}
DeleteIntegration(u, id) ==
  /\ LET r == delete_integration(secrets, integrations, u, id)
     IN  /\ secrets' = r.S
         /\ integrations' = r.I
         /\ resp' = [HttpError("delete_integration_generic", u, id, 500,
                               IF r.ok THEN "true" ELSE "false")
                       EXCEPT !.secret_id = r.row.secret_id]
  /\ UNCHANGED <<nextSecretId, nextIntegrationId, env, provider, calls, accounts>>

(***************************************************************************)
(* OAuth callbacks (oauth_controller.py).                                  *)
(***************************************************************************)
Callback(out) ==
  /\ out.sid <= MaxSecrets + 1
  /\ out.iid <= MaxIntegrations + 1
  /\ secrets' = out.S
  /\ nextSecretId' = out.sid
  /\ integrations' = out.I
  /\ nextIntegrationId' = out.iid
  /\ resp' = out.resp
  /\ UNCHANGED <<env, provider, calls, accounts>>

GoogleCallback(q) ==
  /\ provider = "gmail"
  /\ Callback(google_callback(secrets, nextSecretId, integrations, nextIntegrationId, env, q))

GithubCallback(q) ==
  /\ provider = "github"
  /\ Callback(github_callback(secrets, nextSecretId, integrations, nextIntegrationId, env, q))

SlackCallback(q) ==
  /\ provider = "slack"
  /\ Callback(slack_callback(secrets, nextSecretId, integrations, nextIntegrationId, env, q))

(***************************************************************************)
(* GET /auth/github/callback handled for several requests at once.  Every  *)
(* repository call opens its own connection and is its own transaction,    *)
(* so the calls of two requests interleave statement by statement:         *)
(*   BeginGithubCallback      up to the awaited token exchange and user    *)
(*                            info, both answering                         *)
(*   SaveGithubSecret         secret_service.create_secret                 *)
(*   ListGithubIntegrations   integration_service.get_integrations         *)
(*   FinishGithubCallback     update_integration or                        *)
(*                            create_github_integration, and the redirect  *)
(***************************************************************************)
BeginGithubCallback(c, q) ==
  /\ provider = "github"
  /\ calls[c].pc = "idle"
  /\ q.error = None /\ q.code # "" /\ IsInt(q.state) /\ HasAccessToken(q)
  /\ LET user_id == ParseInt(q.state)
         creds == get_dynamic_credentials(secrets, env, user_id, "github")
     IN  calls' = [calls EXCEPT ![c] =
           IF NoCredentials(creds)
           THEN [NoCall EXCEPT !.pc = "done", !.user_id = user_id,
                   !.result = Traced(RedirectError("github_callback", user_id, "config_error"),
                                     {"no_client_credentials"})]
           ELSE [NoCall EXCEPT !.pc = "exchanged", !.user_id = user_id,
                   !.client_id = creds.client_id, !.client_secret = creds.client_secret]]
  /\ UNCHANGED <<secrets, nextSecretId, integrations, nextIntegrationId, env, provider, resp, accounts>>

SaveGithubSecret(c) ==
  /\ calls[c].pc = "exchanged"
  /\ nextSecretId <= MaxSecrets
  /\ LET saved == create_secret(secrets, nextSecretId, calls[c].user_id,
                    [name |-> "GitHub - octocat", service_type |-> "github",
                     datos_secrets |-> [EmptyDict EXCEPT
                                          !.access_token = "gh_access_token",
                                          !.client_id = calls[c].client_id,
                                          !.client_secret = calls[c].client_secret]])
     IN  /\ secrets' = saved.table
         /\ nextSecretId' = saved.nid
         /\ calls' = [calls EXCEPT ![c].pc = "saved", ![c].secret_id = saved.row.id]
  /\ UNCHANGED <<integrations, nextIntegrationId, env, provider, resp, accounts>>

ListGithubIntegrations(c) ==
  /\ calls[c].pc = "saved"
  /\ LET existing_integrations == get_user_integrations(integrations, calls[c].user_id, "github")
     IN  calls' = [calls EXCEPT ![c].pc = "listed",
                                ![c].existing = IF Len(existing_integrations) > 0
                                                THEN existing_integrations[1].id ELSE NULL]
  /\ UNCHANGED <<secrets, nextSecretId, integrations, nextIntegrationId, env, provider, resp, accounts>>

FinishGithubCallback(c) ==
  /\ calls[c].pc = "listed"
  /\ calls[c].existing = NULL => nextIntegrationId <= MaxIntegrations
  /\ LET op == "github_callback"
         user_id == calls[c].user_id
         secret_id == calls[c].secret_id
         upd == svc_update_integration(secrets, integrations, user_id, calls[c].existing,
                  WithSecretId(secret_id))
         crt == create_provider_integration(secrets, integrations, nextIntegrationId,
                  user_id, "github", secret_id, TRUE)
         warn == Traced(RedirectSuccess(op, user_id, secret_id, NULL, "integration_failed", ""),
                        {"exchanged", "secret_saved", "integration_raised"})
         result == IF calls[c].existing # NULL
                   THEN IF upd.raised \/ upd.ret.id = NULL THEN warn
                        ELSE Traced(RedirectSuccess(op, user_id, NULL, upd.ret.id, "", ""),
                                    {"exchanged", "secret_saved", "integration_updated"})
                   ELSE IF crt.raised THEN warn
                        ELSE Traced(RedirectSuccess(op, user_id, NULL, crt.row.id, "", ""),
                                    {"exchanged", "secret_saved", "integration_created"})
     IN  /\ integrations' = IF calls[c].existing # NULL THEN upd.table ELSE crt.table
         /\ nextIntegrationId' = IF calls[c].existing # NULL THEN nextIntegrationId
                                  ELSE crt.nid
         /\ resp' = result
         /\ calls' = [calls EXCEPT ![c].pc = "done", ![c].result = result,
                         ![c].order = 1 + Cardinality({d \in CallIds : calls[d].pc = "done"})]
  /\ UNCHANGED <<secrets, nextSecretId, env, provider, accounts>>

(***************************************************************************)
(* Protected endpoints: Depends(get_current_user_id) runs before the       *)
(* handler, which gets the user id it returns.                             *)
(***************************************************************************)
\* GET /auth/{google,github,slack}/authorize
Authorize(u, p) ==
  /\ resp' = authorize(secrets, env, u, p)
  /\ UNCHANGED <<secrets, nextSecretId, integrations, nextIntegrationId, env, provider, calls, accounts>>

\* GET /auth/me, for a registered user
Me(u) ==
  /\ resp' = Json("me", u, u, 200, "user")
  /\ UNCHANGED <<secrets, nextSecretId, integrations, nextIntegrationId, env, provider, calls, accounts>>

Rejected(op, auth) ==
  /\ resp' = [HttpError(op, NULL, NULL, auth.status, auth.detail)
                EXCEPT !.headers = auth.headers, !.trace = {"rejected"}]
  /\ UNCHANGED <<secrets, nextSecretId, integrations, nextIntegrationId, env, provider, calls, accounts>>

\* user_id: int = Depends(get_current_user_id): the handler runs for user u
DependsOn(token, bearer, u) ==
  LET auth == get_current_user_id(token, bearer)
  IN  auth.ok /\ auth.user_id = u

\* ... or the dependency raises and the handler does not run
Protected(op, token, bearer) ==
  LET auth == get_current_user_id(token, bearer)
  IN  ~auth.ok /\ Rejected(op, auth)

ProtectedOps ==
  {"create_secret", "list_secrets", "delete_secret", "create_provider_integration",
   "delete_integration", "authorize", "me"}

(***************************************************************************)
(* POST /auth/register (auth_controller.py, AuthService.register_user) and *)
(* GET /auth/google/login/callback (oauth_controller.py).  Both look the   *)
(* email up and then insert, in two statements on two connections, so the  *)
(* statements of several requests interleave.                              *)
(***************************************************************************)
Emails == {"ann@example.com", "bob@example.com"}

\* Google's answers to the login callback: q.email is the email of the
\* userinfo answer, None when it has none
GoodLogin(email) ==
  [error |-> None, code |-> "abc", exchange |-> "full", userinfo_ok |-> TRUE,
   email |-> email]

LoginQueries ==
  {GoodLogin(e) : e \in Emails \cup {None}}
    \cup {[GoodLogin(e) EXCEPT !.error = "access_denied"] : e \in Emails}
    \cup {[GoodLogin(e) EXCEPT !.code = ""] : e \in Emails}
    \cup {[GoodLogin(e) EXCEPT !.exchange = x] : e \in Emails, x \in {"raise", "no_token"}}
    \cup {[GoodLogin(e) EXCEPT !.userinfo_ok = FALSE] : e \in Emails}

Answered(c, kind, email, result) ==
  /\ signups' = [signups EXCEPT ![c] = [pc |-> "done", kind |-> kind, email |-> email,
                                        result |-> result]]
  /\ resp' = result

\* register_user up to find_by_email
Register(c, email) ==
  /\ signups[c].pc = "idle"
  /\ LET existing_user == user_find_by_email(users, email)
     IN  IF existing_user.id # NULL
         THEN Answered(c, "register", email,
                HttpError("register", NULL, NULL, 400, "User with this email already exists"))
         ELSE /\ signups' = [signups EXCEPT ![c] = [NoSignup EXCEPT !.pc = "checked",
                                                      !.kind = "register", !.email = email]]
              /\ UNCHANGED resp
  /\ UNCHANGED <<secrets, nextSecretId, integrations, nextIntegrationId, env, provider,
                 calls, users, nextUserId>>

\* google_login_callback up to get_user_by_email
GoogleLogin(c, q) ==
  /\ signups[c].pc = "idle"
  /\ LET op == "google_login_callback"
         existing_user == user_find_by_email(users, q.email)
         fail(reason) == Answered(c, "google_login", "", RedirectError(op, NULL, reason))
     IN  IF q.error # None THEN fail(q.error)
         ELSE IF q.code = "" THEN fail("no_code")
         ELSE IF ~validate(env, "gmail") THEN fail("config_error")
         ELSE IF q.exchange = "raise" THEN fail("token_exchange_failed")
         ELSE IF ~HasAccessToken(q) THEN fail("no_access_token")
         ELSE IF ~q.userinfo_ok THEN fail("userinfo_failed")
         ELSE IF q.email \in {None, ""} THEN fail("no_email")
         ELSE IF existing_user.id # NULL
         THEN Answered(c, "google_login", q.email,
                Traced([RedirectSuccess(op, existing_user.id, NULL, NULL, "", "")
                          EXCEPT !.ret = "oauth_login_success"],
                       {"logged_in_existing"}))
         ELSE /\ signups' = [signups EXCEPT ![c] = [NoSignup EXCEPT !.pc = "checked",
                                                      !.kind = "google_login",
                                                      !.email = q.email]]
              /\ UNCHANGED resp
  /\ UNCHANGED <<secrets, nextSecretId, integrations, nextIntegrationId, env, provider,
                 calls, users, nextUserId>>

\* user_repository.save(new_user) and the response.  Neither handler
\* catches the IntegrityError of a refused INSERT.
InsertUser(c) ==
  /\ signups[c].pc = "checked"
  /\ LET saved == user_save(users, nextUserId, signups[c].email)
         op == IF signups[c].kind = "register" THEN "register" ELSE "google_login_callback"
     IN  /\ users' = saved.table
         /\ nextUserId' = saved.nid
         /\ Answered(c, signups[c].kind, signups[c].email,
              IF saved.raised
              THEN HttpError(op, NULL, NULL, 500, "IntegrityError")
              ELSE IF signups[c].kind = "register"
              THEN Traced(Json(op, saved.row.id, saved.row.id, 201, "user"), {"user_created"})
              ELSE Traced([RedirectSuccess(op, saved.row.id, NULL, NULL, "", "")
                             EXCEPT !.ret = "oauth_login_success"],
                          {"user_created"}))
  /\ UNCHANGED <<secrets, nextSecretId, integrations, nextIntegrationId, env, provider, calls>>

PostBodies ==
  [user_id : {1}, secret_id : {NULL} \cup SecretIds, service_type : {provider},
   status : {""}, is_active : {TRUE}]

\* the callback requests in which every step succeeds
GoodQueries == {[GoodQuery EXCEPT !.state = s] : s \in {"1", "2"}}

(***************************************************************************)
(* The secret store behind its endpoints and the callbacks that write to   *)
(* it.                                                                     *)
(***************************************************************************)
NextSecrets ==
  \/ \E u \in Users, d \in ManualPayloads : CreateSecret(u, provider, d)
  \/ \E u \in Users : ListSecrets(u)
  \/ \E u \in Users, id \in SecretIds : GetSecret(u, id)
  \/ \E u \in Users, id \in SecretIds, data \in UpdateBodies : UpdateSecret(u, id, data)
  \/ \E u \in Users, id \in SecretIds : DeleteSecret(u, id)
  \/ \E q \in GoodQueries : GoogleCallback(q)
  \/ \E q \in GoodQueries : GithubCallback(q)
  \/ \E q \in GoodQueries : SlackCallback(q)

SpecSecrets == Init /\ [][NextSecrets]_vars

(***************************************************************************)
(* Credential resolution over the secrets and integrations the endpoints   *)
(* leave behind.                                                           *)
(***************************************************************************)
InitConfigured == Init /\ env = [p \in Providers |-> TRUE]

NextResolution ==
  \/ \E u \in Users : CreateSecret(u, provider, UsablePayload(provider))
  \/ \E u \in Users, id \in SecretIds : DeleteSecret(u, id)
  \/ \E u \in Users, c \in {NULL} \cup SecretIds :
       CreateProviderIntegration(u, provider, c, TRUE)
  \/ \E u \in Users, id \in IntegrationIds, ok \in BOOLEAN :
       UseIntegration(u, provider, id, ok)

SpecResolution == InitConfigured /\ [][NextResolution]_vars

(***************************************************************************)
(* The integration store behind its endpoints.                             *)
(***************************************************************************)
NextStore ==
  \/ \E u \in Users, c \in {NULL} \cup SecretIds, ok \in BOOLEAN :
       CreateProviderIntegration(u, provider, c, ok)
  \/ \E u \in Users, id \in IntegrationIds : DeleteProviderIntegration(u, id)
  \/ \E u \in Users, body \in PostBodies : PostIntegration(u, body)
  \/ \E u \in Users, id \in IntegrationIds, f \in FieldSets : PutIntegration(u, id, f)
  \/ \E u \in Users, id \in IntegrationIds : DeleteIntegration(u, id)

SpecStore == InitConfigured /\ [][NextStore]_vars

(***************************************************************************)
(* The OAuth callbacks with every way they fail, next to hand-made         *)
(* secrets.                                                                *)
(***************************************************************************)
NextOAuth ==
  \/ \E u \in Users, d \in ManualPayloads : CreateSecret(u, provider, d)
  \/ \E q \in Queries : GoogleCallback(q)
  \/ \E q \in Queries : GithubCallback(q)
  \/ \E q \in Queries : SlackCallback(q)

SpecOAuth == Init /\ [][NextOAuth]_vars

(***************************************************************************)
(* Every operation that creates an integration.                            *)
(***************************************************************************)
\* callback requests that get as far as the integration
CreationQueries ==
  GoodQueries \cup {[GoodQuery EXCEPT !.state = s, !.integ_fails = TRUE] : s \in {"1", "2"}}

NextCreation ==
  \/ \E u \in Users, c \in {NULL} \cup SecretIds :
       CreateProviderIntegration(u, provider, c, TRUE)
  \/ \E u \in Users, body \in {b \in PostBodies : b.secret_id = NULL} :
       PostIntegration(u, body)
  \/ \E q \in CreationQueries : GoogleCallback(q)
  \/ \E q \in CreationQueries : GithubCallback(q)
  \/ \E q \in CreationQueries : SlackCallback(q)

SpecCreation == InitConfigured /\ [][NextCreation]_vars

(***************************************************************************)
(* Every operation on secrets and integrations, with usable payloads:      *)
(* what creates, rebinds, resolves, syncs and deletes.                     *)
(***************************************************************************)
NextLifecycle ==
  \/ \E u \in Users : CreateSecret(u, provider, UsablePayload(provider))
  \/ \E u \in Users, s \in secrets : DeleteSecret(u, s.id)
  \/ \E s \in secrets : CreateProviderIntegration(s.user_id, provider, s.id, TRUE)
  \/ \E i \in integrations, s \in secrets : PutIntegration(i.user_id, i.id, WithSecretId(s.id))
  \/ \E u \in Users, i \in integrations : DeleteProviderIntegration(u, i.id)
  \/ \E i \in integrations : DeleteIntegration(i.user_id, i.id)
  \/ \E i \in integrations : UseIntegration(i.user_id, provider, i.id, TRUE)
  \/ \E i \in integrations : SyncIntegration(i.user_id, provider, i.id, TRUE, TRUE)
  \/ GoogleCallback(GoodQuery)
  \/ GithubCallback(GoodQuery)
  \/ SlackCallback(GoodQuery)

SpecLifecycle == InitConfigured /\ [][NextLifecycle]_vars

(***************************************************************************)
(* Resolution and sync over one user's secrets that are usable,            *)
(* incomplete, damaged or gone.                                            *)
(***************************************************************************)
SyncPayloads == {UsablePayload(provider), CredsOnly}

NextSync ==
  \/ \E d \in SyncPayloads : CreateSecret(1, provider, d)
  \/ \E s \in secrets : DeleteSecret(s.user_id, s.id)
  \/ \E s \in secrets, how \in Damages :
       decrypt(s.encrypted_value) = json_dumps(UsablePayload(provider)) /\ CorruptSecret(s, how)
  \/ \E s \in secrets \cup {NoSecret}, ok \in BOOLEAN :
       CreateProviderIntegration(1, provider, s.id, ok)
  \/ \E i \in integrations : UseIntegration(i.user_id, provider, i.id, TRUE)
  \/ \E i \in integrations, provider_ok \in BOOLEAN, profile_ok \in BOOLEAN :
       SyncIntegration(i.user_id, provider, i.id, provider_ok, profile_ok)

SpecSync == InitConfigured /\ [][NextSync]_vars

(***************************************************************************)
(* The protected endpoints as requests with a bearer token.                *)
(***************************************************************************)
\* the answers the framework may give to this request by itself
Bearers(token) ==
  IF token = NoAuthorization THEN NotAuthenticated
  ELSE {[status |-> 401, headers |-> {"WWW-Authenticate: Bearer"}]}

NextAuth ==
  \E token \in Tokens : \E bearer \in Bearers(token) :
    \/ \E op \in ProtectedOps : Protected(op, token, bearer)
    \/ \E u \in Users :
         /\ DependsOn(token, bearer, u)
         /\ \/ CreateSecret(u, provider, UsablePayload(provider))
            \/ ListSecrets(u)
            \/ \E s \in secrets : DeleteSecret(u, s.id)
            \/ \E s \in secrets : CreateProviderIntegration(u, provider, s.id, TRUE)
            \/ \E i \in integrations : DeleteProviderIntegration(u, i.id)
            \/ Authorize(u, provider)
            \/ Me(u)

SpecAuth == Init /\ [][NextAuth]_vars

(***************************************************************************)
(* The secret store over ciphertexts that were damaged or written under    *)
(* another master key.                                                     *)
(***************************************************************************)
NextEncryption ==
  \/ \E u \in Users : CreateSecret(u, provider, UsablePayload(provider))
  \/ \E s \in secrets, how \in Damages : CorruptSecret(s, how)
  \/ \E u \in Users, s \in secrets : GetSecret(u, s.id)
  \/ \E s \in secrets, data \in UpdateBodies : UpdateSecret(s.user_id, s.id, data)
  \/ \E s \in secrets : DeleteSecret(s.user_id, s.id)

SpecEncryption == InitConfigured /\ [][NextEncryption]_vars

(***************************************************************************)
(* Reconnecting GitHub: users with at most one integration each, and two   *)
(* callback requests in flight.                                            *)
(***************************************************************************)
InitReconnect == InitConfigured /\ provider = "github"

NextReconnect ==
  \/ \E u \in Users :
       /\ \A i \in integrations : i.user_id # u
       /\ CreateProviderIntegration(u, provider, NULL, TRUE)
  \/ \E c \in CallIds, q \in GoodQueries : BeginGithubCallback(c, q)
  \/ \E c \in CallIds : SaveGithubSecret(c)
  \/ \E c \in CallIds : ListGithubIntegrations(c)
  \/ \E c \in CallIds : FinishGithubCallback(c)

SpecReconnect == InitReconnect /\ [][NextReconnect]_vars

(***************************************************************************)
(* Connecting GitHub for the first time: no integration exists, and two    *)
(* callback requests are in flight.                                        *)
(***************************************************************************)
NextFirstConnect ==
  \/ \E c \in CallIds, q \in GoodQueries : BeginGithubCallback(c, q)
  \/ \E c \in CallIds : SaveGithubSecret(c)
  \/ \E c \in CallIds : ListGithubIntegrations(c)
  \/ \E c \in CallIds : FinishGithubCallback(c)

SpecFirstConnect == InitReconnect /\ [][NextFirstConnect]_vars

(***************************************************************************)
(* The users table behind registration and login via Google.               *)
(***************************************************************************)
NextAccounts ==
  \/ \E c \in SignupIds, email \in Emails : Register(c, email)
  \/ \E c \in SignupIds, q \in LoginQueries : GoogleLogin(c, q)
  \/ \E c \in SignupIds : InsertUser(c)

SpecAccounts == Init /\ [][NextAccounts]_vars

(***************************************************************************)
(* Every endpoint that takes an integration id, called with ids that exist *)
(* for the caller, exist for another user, or do not exist.                *)
(***************************************************************************)
NextNotFound ==
  \/ \E u \in Users : CreateSecret(u, provider, UsablePayload(provider))
  \/ \E s \in secrets : CreateProviderIntegration(s.user_id, provider, s.id, TRUE)
  \/ \E u \in Users, id \in IntegrationIds : DeleteProviderIntegration(u, id)
  \/ \E u \in Users, id \in IntegrationIds : UseIntegration(u, provider, id, TRUE)
  \/ \E u \in Users, id \in IntegrationIds : SyncIntegration(u, provider, id, TRUE, TRUE)
  \/ \E u \in Users, id \in IntegrationIds : GetIntegration(u, id)
  \/ \E u \in Users, id \in IntegrationIds : PutIntegration(u, id, NoFields)
  \/ \E u \in Users, id \in IntegrationIds : DeleteIntegration(u, id)

SpecNotFound == InitConfigured /\ [][NextNotFound]_vars

(***************************************************************************)
(* Integrations of every provider, deleted through the provider endpoints  *)
(* that the application mounts.                                            *)
(***************************************************************************)
Mounted == {"gmail", "github"}

DeleteOp(p) == IF p = "gmail" THEN "delete_email_integration"
               ELSE IF p = "github" THEN "delete_github_integration"
               ELSE "delete_slack_integration"

\* DELETE /email/integrations/{id}, /github/integrations/{id},
\* /messages/integrations/{id}
DeleteByEndpoint(u, p, id) ==
  /\ LET r == delete_integration(secrets, integrations, u, id)
     IN  /\ secrets' = r.S
         /\ integrations' = r.I
         /\ resp' = IF r.ok
                    THEN [Json(DeleteOp(p), u, id, 200, "true")
                            EXCEPT !.secret_id = r.row.secret_id]
                    ELSE HttpError(DeleteOp(p), u, id, 500, "false")
  /\ UNCHANGED <<nextSecretId, nextIntegrationId, env, provider, calls, accounts>>

NextEndpoints ==
  \/ \E u \in Users, p \in Providers : CreateProviderIntegration(u, p, NULL, TRUE)
  \/ \E u \in Users, p \in Mounted, id \in IntegrationIds : DeleteByEndpoint(u, p, id)

SpecEndpoints == InitConfigured /\ [][NextEndpoints]_vars

(***************************************************************************)
(* Integrations created through the provider endpoints over secrets of     *)
(* either user.                                                            *)
(***************************************************************************)
NextOwnership ==
  \/ \E u \in Users : CreateSecret(u, provider, UsablePayload(provider))
  \/ \E u \in Users, c \in {NULL} \cup SecretIds, ok \in BOOLEAN :
       CreateProviderIntegration(u, provider, c, ok)

SpecOwnership == InitConfigured /\ [][NextOwnership]_vars

(***************************************************************************)
(* Integrations bound through the generic endpoint to secrets of either    *)
(* user, then read and synchronised by their owner.                        *)
(***************************************************************************)
NextForeign ==
  \/ \E u \in Users : CreateSecret(u, provider, UsablePayload(provider))
  \/ \E s \in secrets : DeleteSecret(s.user_id, s.id)
  \/ \E u \in Users, body \in PostBodies : PostIntegration(u, body)
  \/ \E i \in integrations : UseIntegration(i.user_id, provider, i.id, TRUE)
  \/ \E i \in integrations : SyncIntegration(i.user_id, provider, i.id, TRUE, TRUE)

SpecForeign == InitConfigured /\ [][NextForeign]_vars


(***************************************************************************)
(* The OAuth flow from the authorize endpoint to the callback.             *)
(***************************************************************************)
NextBinding ==
  \/ \E u \in Users : CreateSecret(u, provider, CredsOnly)
  \/ \E u \in Users : Authorize(u, provider)
  \/ \E q \in Queries : GoogleCallback(q)
  \/ \E q \in Queries : GithubCallback(q)
  \/ \E q \in Queries : SlackCallback(q)

SpecBinding == Init /\ [][NextBinding]_vars

(***************************************************************************)
(* Properties of the secret store (under SpecSecrets).                     *)
(***************************************************************************)
\* the ids in a listing
IdsOf(rows) == {rows[i].id : i \in DOMAIN rows}

C2_ForeignSecretNotFound ==
  [][\A s \in secrets :
       (/\ resp'.op \in {"get_secret", "update_secret", "delete_secret"}
        /\ resp'.target = s.id
        /\ resp'.user # s.user_id)
       => (/\ resp'.kind = "http_error"
           /\ resp'.status = 404
           /\ secrets' = secrets)]_vars

\* user v's update of another user's existing secret was answered 404 and
\* the row is still there
C2_Witness ==
  /\ resp.op = "update_secret"
  /\ resp.status = 404
  /\ \E s \in secrets : s.id = resp.target /\ s.user_id # resp.user


(***************************************************************************)
(* Properties of credential resolution and of the integration store        *)
(* (C3, C4 under SpecResolution; C10 under SpecStore).                     *)
(***************************************************************************)
\* the integration's secret_id names no row of the secrets table
Orphaned(S, i) == i.secret_id # NULL /\ ~HasRow(S, i.secret_id)

\* the secrets of the integration's owner whose type is of its provider
OwnMatching(S, i) ==
  {s \in S : s.user_id = i.user_id /\ s.service_type \in TypeFamily(i.service_type)}

\* the most recently created row of a non-empty set of rows
Newest(T) == CHOOSE s \in T : \A x \in T : x.created_at <= s.created_at

\* the request answered in resp' resolved the credentials of integration i
\* for its owner and its provider
Resolved(i) ==
  /\ resp'.op = "get_client"
  /\ resp'.target = i.id
  /\ resp'.user = i.user_id
  /\ resp'.message = i.service_type

\* C3: resolving an orphaned integration whose owner has a secret of the
\* provider's type (the newest of them holding the fields the client
\* needs) succeeds with the newest such secret, and the integration row
\* afterwards carries that secret's id.
C3_OrphanRecoveryPersists ==
  [][\A i \in integrations :
       (/\ Resolved(i)
        /\ Orphaned(secrets, i)
        /\ OwnMatching(secrets, i) # {}
        /\ TokenError(i.service_type,
                      json_loads(decrypt(Newest(OwnMatching(secrets, i)).encrypted_value))) = "ok")
       => (/\ resp'.ret \in {"ok", "provider_failed"}
           /\ resp'.secret_id = Newest(OwnMatching(secrets, i)).id
           /\ \E j \in integrations' :
                j.id = i.id /\ j.secret_id = Newest(OwnMatching(secrets, i)).id)]_vars

\* C4: resolving an integration with no usable secret (secret_id null, or
\* orphaned while its owner has no secret of the provider's type) fails
\* with the error asking to reconnect / connect via OAuth, uses no secret,
\* and leaves the integrations and secrets tables unchanged; with a null
\* secret_id the error is the one raised before any scan.
C4_NoUsableSecretAsksReconnect ==
  [][\A i \in integrations :
       (/\ Resolved(i)
        /\ \/ i.secret_id = NULL
           \/ /\ Orphaned(secrets, i)
              /\ OwnMatching(secrets, i) = {})
       => (/\ resp'.kind = "http_error"
           /\ resp'.ret \in ReconnectErrors
           /\ i.secret_id = NULL => resp'.ret = "no_credentials_reconnect"
           /\ resp'.secret_id = NULL
           /\ integrations' = integrations
           /\ secrets' = secrets)]_vars

\* an orphaned integration was resolved for its owner, who has no secret,
\* while another user has one of the provider's type
C4_Witness ==
  /\ resp.op = "get_client"
  /\ resp.ret = "no_secret_connect_oauth"
  /\ \E i \in integrations :
       /\ i.id = resp.target
       /\ i.user_id = resp.user
       /\ Orphaned(secrets, i)
       /\ \E s \in secrets : s.user_id # i.user_id /\ s.service_type = i.service_type

\* C10: for every integration row i and every user v other than its owner,
\* get_integration(i, v) returns nothing, update_integration(i, v, fields)
\* returns nothing and delete_integration(i, v) returns false, none of them
\* raises, and the table is the same afterwards.
C10_StoreScopedToOwner ==
  \A i \in integrations : \A v \in Users \ {i.user_id} :
    /\ get_integration(integrations, i.id, v) = NoIntegration
    /\ \A f \in FieldSets :
         LET u == repo_update_integration(integrations, i.id, v, f)
         IN  u.ret = NoIntegration /\ ~u.raised /\ u.table = integrations
    /\ LET d == repo_delete_integration(integrations, i.id, v)
       IN  ~d.ok /\ d.table = integrations

\* another user's DELETE of an existing integration was answered: the store
\* returned false and the row is still there
C10_Witness ==
  /\ resp.op = "delete_integration_generic"
  /\ resp.ret = "false"
  /\ \E i \in integrations : i.id = resp.target /\ i.user_id # resp.user


(***************************************************************************)
(* Properties of the OAuth callbacks (C5 under SpecCreation, C6 to C9      *)
(* under SpecOAuth).                                                       *)
(***************************************************************************)
CallbackOps == {"google_callback", "github_callback", "slack_callback"}

\* the steps of a callback at which it fails
FailingSteps ==
  {"provider_error", "no_code", "invalid_state", "no_client_credentials",
   "exchange_failed", "no_token", "no_refresh_token", "save_failed"}

\* the user's integrations of the provider's type
OwnIntegrations(I, user_id, p) == {r \in I : r.user_id = user_id /\ r.service_type = p}

HoldsRefreshToken(s, u) ==
  /\ s.user_id = u
  /\ s.service_type \in {"gmail", "email"}
  /\ json_loads_ok(decrypt(s.encrypted_value))
  /\ Truthy(json_loads(decrypt(s.encrypted_value)), "refresh_token")

\* C6: a Google callback whose token answer has no refresh_token, for a
\* user who has a gmail/email secret with a stored refresh_token, redirects
\* with oauth_success=true, that secret's id and message=already_authorized
\* and creates no secret.
C6_AlreadyAuthorized ==
  [][(/\ resp'.op = "google_callback"
      /\ "no_refresh_token" \in resp'.trace
      /\ \E s \in secrets : HoldsRefreshToken(s, resp'.user))
     => (/\ resp'.kind = "redirect"
         /\ resp'.oauth_success
         /\ resp'.message = "already_authorized"
         /\ \E s \in secrets : HoldsRefreshToken(s, resp'.user) /\ s.id = resp'.secret_id
         /\ secrets' = secrets)]_vars

\* the client credentials a stored github secret of the user provides
StoredClientCredentials(S, user_id) ==
  {s \in S : /\ s.user_id = user_id
             /\ s.service_type = "github"
             /\ json_loads_ok(decrypt(s.encrypted_value))
             /\ Truthy(json_loads(decrypt(s.encrypted_value)), "client_id")
             /\ Truthy(json_loads(decrypt(s.encrypted_value)), "client_secret")}

C8_FailuresRedirect ==
  (resp.op \in CallbackOps /\ resp.trace \cap FailingSteps # {} /\ ~resp.oauth_success)
  => (resp.kind = "redirect" /\ resp.oauth_error # "")

DeleteIntegrationOps == {"delete_integration", "delete_integration_generic"}

\* C11: a DELETE of an integration, through the provider endpoints or the
\* generic one, successful or not, leaves the secrets table unchanged; the
\* secret the deleted integration referenced is still stored with the same
\* owner, name, type and payload.
C11_DeleteIntegrationKeepsSecret ==
  [][resp'.op \in DeleteIntegrationOps
     => (/\ secrets' = secrets
         /\ \A i \in integrations \ integrations' :
              HasRow(secrets, i.secret_id)
              => /\ RowOf(secrets, i.secret_id) \in secrets'
                 /\ find_by_id(secrets', i.secret_id) = find_by_id(secrets, i.secret_id))]_vars

\* an integration bound to a stored secret has been deleted by its owner
C11_Witness ==
  /\ resp.op \in DeleteIntegrationOps
  /\ resp.ret = "true"
  /\ ~HasRow(integrations, resp.target)
  /\ HasRow(secrets, resp.secret_id)
  /\ RowOf(secrets, resp.secret_id).user_id = resp.user

\* C12: a secret row that is stored before a step and not after it was
\* removed by delete_secret, called for that secret by its owner and
\* answered with success; every other operation keeps every secret row.
C12_OnlyOwnerDeletesSecret ==
  [][\A s \in secrets :
       ~HasRow(secrets', s.id)
       => (/\ resp'.op = "delete_secret"
           /\ resp'.user = s.user_id
           /\ resp'.target = s.id
           /\ resp'.status = 200)]_vars

\* the last integration has been deleted while the secret it was bound to
\* is still stored
C12_Witness ==
  /\ resp.op \in DeleteIntegrationOps
  /\ resp.ret = "true"
  /\ integrations = {}
  /\ HasRow(secrets, resp.secret_id)


(***************************************************************************)
(* Re-authorization (C13 under SpecSecrets).                               *)
(***************************************************************************)
\* the secrets of a user and type that an OAuth callback wrote
OAuthSecrets(S, user_id, p) ==
  {s \in S : s.user_id = user_id /\ s.service_type = p /\ s.name # "manual"}

\* the callback answered in resp' saved its secret for a user who already
\* had a secret of the provider written by a callback
Reauthorized ==
  /\ resp'.op \in CallbackOps
  /\ "secret_saved" \in resp'.trace
  /\ OAuthSecrets(secrets, resp'.user, provider) # {}

\* C13 as stated: a callback that completes for a user who already has an
\* OAuth secret of the provider updates that row, so the ids of the user's
\* secrets of the provider are the same afterwards and their number does
\* not grow.
C13_ReauthorizationInPlace ==
  [][Reauthorized
     => (/\ {s.id : s \in {x \in secrets' : x.user_id = resp'.user /\ x.service_type = provider}}
              = {s.id : s \in {x \in secrets : x.user_id = resp'.user /\ x.service_type = provider}}
         /\ nextSecretId' = nextSecretId)]_vars

\* C13 as amended: such a callback inserts one secret row with a fresh id
\* for that user and provider, holding the payload JSON, and leaves every
\* row stored before as it was.
C13_ReauthorizationAddsSecret ==
  [][Reauthorized
     => (/\ secrets \subseteq secrets'
         /\ nextSecretId' = nextSecretId + 1
         /\ \E n \in secrets' :
              /\ secrets' = secrets \cup {n}
              /\ n.id = nextSecretId
              /\ ~HasRow(secrets, n.id)
              /\ n.user_id = resp'.user
              /\ n.service_type = provider
              /\ json_loads_ok(decrypt(n.encrypted_value)))]_vars

\* a user completed the callback of the same provider twice
C13_Witness ==
  /\ resp.op \in CallbackOps
  /\ "secret_saved" \in resp.trace
  /\ Cardinality(OAuthSecrets(secrets, resp.user, provider)) = 2


(***************************************************************************)
(* Sync and damaged credentials (C14, C15 under SpecSync).                 *)
(***************************************************************************)
\* the request answered in resp' was a sync of integration i by its owner
Synced(i) ==
  /\ resp'.op = "sync"
  /\ resp'.target = i.id
  /\ resp'.user = i.user_id
  /\ resp'.message = i.service_type

\* the failures of resolution that are about the credential: no secret on
\* the integration, no secret row, payload undecryptable or unparsable,
\* required token absent
CredentialFailures ==
  {"no_credentials_reconnect", "no_secret_connect_oauth", "empty_value",
   "invalid_format_reconnect", "missing_access_token", "missing_refresh_token",
   "missing_required_field", "missing_bot_token"}

\* C14: after a sync of integration i, the stored row of i has status
\* 'connected' and a new updated_at when the credentials resolved and the
\* profile call succeeded; it has the status it had when the failure was
\* credential-related; it has status 'error' when the provider call failed.
C14_SyncStatusRule ==
  [][\A i \in integrations :
       Synced(i)
       => \E j \in integrations' :
            /\ j.id = i.id
            /\ "verified" \in resp'.trace
                 => (j.status = "connected" /\ j.updated_at > i.updated_at)
            /\ resp'.ret \in CredentialFailures => j.status = i.status
            /\ resp'.ret = "provider_failed" => j.status = "error"]_vars


\* the stored payload does not decrypt, or decrypts to text that is not JSON
Corrupt(s) ==
  \/ decrypt(s.encrypted_value) = EmptyStr
  \/ ~json_loads_ok(decrypt(s.encrypted_value))

\* the errors whose text tells the user to reconnect the account
ReconnectInstructions == ReconnectErrors \cup {"invalid_format_reconnect"}

\* C15: a read or a sync through integration i, whose secret row is its
\* owner's and is corrupt, fails with an error that tells the user to
\* reconnect; the secrets table is unchanged and the row of i keeps its
\* secret_id.
C15_CorruptSecretAsksReconnect ==
  [][\A i \in integrations :
       (/\ Resolved(i) \/ Synced(i)
        /\ HasRow(secrets, i.secret_id)
        /\ RowOf(secrets, i.secret_id).user_id = i.user_id
        /\ Corrupt(RowOf(secrets, i.secret_id)))
       => (/\ resp'.kind = "http_error"
           /\ resp'.ret \in ReconnectInstructions
           /\ secrets' = secrets
           /\ \E j \in integrations' : j.id = i.id /\ j.secret_id = i.secret_id)]_vars


(***************************************************************************)
(* Authentication (C16 under SpecAuth).                                    *)
(***************************************************************************)
\* a request that must not get through: no token, a token that is invalid
\* or expired, or a payload without an integer 'sub'
BadToken(token) == token.kind # "valid" \/ token.sub \notin {"1", "2"}

\* C16: every request without a valid token carrying an integer 'sub' is
\* refused with 401 and WWW-Authenticate: Bearer, whatever the endpoint,
\* and a refused request leaves secrets and integrations as they were.
C16_BadTokenUnauthorized ==
  [][/\ \A token \in Tokens, bearer \in NotAuthenticated :
          BadToken(token) => ~get_current_user_id(token, bearer).ok
     /\ "rejected" \in resp'.trace
          => (/\ resp'.status = 401
              /\ "WWW-Authenticate: Bearer" \in resp'.headers
              /\ UNCHANGED <<secrets, nextSecretId, integrations, nextIntegrationId>>)]_vars


(***************************************************************************)
(* The encryption adapter (C17 under SpecSecrets).                         *)
(***************************************************************************)
\* plaintexts handed to encrypt: the JSON the services write, and strings
\* that are not JSON
Plaintexts ==
  {EmptyStr, REDACTED, Text("secret_data_123")}
    \cup {json_dumps(d) : d \in {EmptyDict, TokenOnly, CredsOnly, GmailManual}}

\* the Secret handed to save for user u with payload P
Unsaved(u, P) ==
  [NoSecret EXCEPT !.user_id = u, !.name = "n", !.encrypted_value = P,
                   !.service_type = provider]

ForeignTokens ==
  [key : {"ANOTHER_KEY", "<no token>"}, plain : Plaintexts \cup {Text("invalid_token_data")}]

Foreign(s) == s.encrypted_value.key # MasterKey

Merged(i, f, now) ==
  [id |-> i.id, user_id |-> i.user_id,
   secret_id |-> IF "secret_id" \in Provided(f) THEN f.secret_id ELSE i.secret_id,
   service_type |-> IF "service_type" \in Provided(f) THEN f.service_type
                    ELSE i.service_type,
   status |-> IF "config" \in Provided(f) THEN f.config ELSE i.status,
   is_active |-> IF "is_active" \in Provided(f) THEN f.is_active ELSE i.is_active,
   created_at |-> i.created_at, updated_at |-> now]

\* C19: every update of an owned integration that returns a row leaves the
\* stored row with the provided fields at their new values, the other
\* fields as they were and updated_at at the time of the call, also when no
\* field or only null fields are provided.
C19_UpdateMergesAndStamps ==
  \A i \in integrations, f \in FieldSets :
    LET r == svc_update_integration(secrets, integrations, i.user_id, i.id, f)
    IN  (~r.raised /\ r.ret.id # NULL)
        => (/\ HasRow(r.table, i.id)
            /\ RowOf(r.table, i.id) = Merged(i, f, NOW(integrations)))


(***************************************************************************)
(* Concurrent reconnects (C20 under SpecReconnect).                        *)
(***************************************************************************)
\* both callback requests are answered, they were for the same user, and
\* each found the user's integration when it listed them
BothReconnected ==
  /\ \A c \in CallIds : calls[c].pc = "done" /\ calls[c].existing # NULL
  /\ calls[1].user_id = calls[2].user_id

\* the request whose update of the integration ran last
LastWriter == CHOOSE c \in CallIds : \A d \in CallIds : calls[d].order <= calls[c].order

\* C20: when two reconnect callbacks of one user have run concurrently
\* against the user's existing integration, both have completed, both
\* secrets are stored, the user still has exactly one integration of that
\* type, and its secret_id is the secret of the request whose update ran
\* last.
C20_LastWriterWins ==
  BothReconnected
  => (/\ \A c \in CallIds : calls[c].result.oauth_success
      /\ \A c \in CallIds : /\ HasRow(secrets, calls[c].secret_id)
                             /\ RowOf(secrets, calls[c].secret_id).user_id = calls[c].user_id
      /\ calls[1].secret_id # calls[2].secret_id
      /\ Cardinality(OwnIntegrations(integrations, calls[1].user_id, "github")) = 1
      /\ \A i \in OwnIntegrations(integrations, calls[1].user_id, "github") :
           i.secret_id = calls[LastWriter].secret_id)


(***************************************************************************)
(* The users table (C21 under SpecAccounts).                               *)
(***************************************************************************)
\* the request that took a step
Stepped(c) == signups'[c] # signups[c]

ProviderCallback(q) ==
  IF provider = "gmail"
  THEN google_callback(secrets, nextSecretId, integrations, nextIntegrationId, env, q)
  ELSE IF provider = "github"
  THEN github_callback(secrets, nextSecretId, integrations, nextIntegrationId, env, q)
  ELSE slack_callback(secrets, nextSecretId, integrations, nextIntegrationId, env, q)

\* C22: the authorize endpoint answers user u with state = str(u), which
\* parses back to u; whatever a callback writes, secret or integration, is
\* owned by the user whose id is the decimal string in state, and a
\* callback whose state is no integer writes nothing.
C22_StateBindsOwner ==
  /\ \A u \in Users :
       LET r == authorize(secrets, env, u, provider)
       IN  r.status = 200 => (r.message = Str(u) /\ IsInt(r.message) /\ ParseInt(r.message) = u)
  /\ \A q \in Queries :
       LET out == ProviderCallback(q)
       IN  /\ \A u \in Users :
                Str(u) = q.state
                => (/\ \A s \in out.S \ secrets : s.user_id = u
                    /\ \A i \in out.I \ integrations : i.user_id = u)
           /\ (\A u \in Users : Str(u) # q.state)
              => (out.S = secrets /\ out.I = integrations)

\* a callback with state "2" has stored a secret and an integration bound
\* to it, both owned by user 2
C22_Witness ==
  /\ resp.op \in CallbackOps
  /\ resp.oauth_success
  /\ resp.user = 2
  /\ \E s \in secrets, i \in integrations :
       s.user_id = 2 /\ i.user_id = 2 /\ i.secret_id = s.id
  /\ \A s \in secrets : s.user_id = 2


(***************************************************************************)
(* Unknown integration ids (C23 under SpecNotFound).                       *)
(***************************************************************************)
\* the operations that take an integration id
IntegrationIdOps ==
  {"delete_integration", "get_client", "sync", "get_integration", "put_integration",
   "delete_integration_generic"}

\* C23: a request to an endpoint that takes an integration id, with an id
\* that no integration of the caller has, is answered with 404.
C23_UnknownIntegrationIs404 ==
  [][(/\ resp'.op \in IntegrationIdOps
      /\ ~\E i \in integrations : i.id = resp'.target /\ i.user_id = resp'.user)
     => resp'.status = 404]_vars


(***************************************************************************)
(* The client credentials a callback stores (C24 under SpecBinding).       *)
(***************************************************************************)
\* C24: when a callback saves its secret, the client_id and client_secret
\* in the saved payload are the pair get_dynamic_credentials returns for
\* that user, which is the pair the token exchange used; and a callback
\* does not answer with a configuration error while the authorize endpoint
\* of the same provider accepts the user's credentials.
C24_StoredCredentialsAreExchanged ==
  \A q \in GoodQueries :
    LET out == ProviderCallback(q)
        creds == get_dynamic_credentials(secrets, env, ParseInt(q.state), provider)
    IN  /\ "secret_saved" \in out.resp.trace
           => \A s \in out.S \ secrets :
                LET datos == json_loads(decrypt(s.encrypted_value))
                IN  /\ datos.client_id = creds.client_id
                    /\ datos.client_secret = creds.client_secret
        /\ authorize(secrets, env, ParseInt(q.state), provider).status = 200
           => "no_client_credentials" \notin out.resp.trace


(***************************************************************************)
(* Secret ownership in integrations (C25 under SpecOwnership, C26 under    *)
(* SpecForeign).                                                           *)
(***************************************************************************)
Owns(u, secret_id) == HasRow(secrets, secret_id) /\ RowOf(secrets, secret_id).user_id = u

\* C25: create_{email,github,slack}_integration by user u with a
\* credential_id that names no secret of u fails with 'Credential not found
\* or access denied' and inserts nothing; with a secret of u it inserts one
\* integration of u bound to that secret, with status 'connected' when the
\* profile call succeeds and 'error' when it fails; with no credential_id
\* it inserts one integration with status 'pending'.
C25_CreateChecksCredential ==
  \A u \in Users, c \in {NULL} \cup SecretIds, ok \in BOOLEAN :
    LET r == create_provider_integration(secrets, integrations, nextIntegrationId,
                                         u, provider, c, ok)
        added == r.table \ integrations
        usable == find_by_id(secrets, c).encrypted_value = json_dumps(UsablePayload(provider))
    IN  /\ (c # NULL /\ ~Owns(u, c)) => (r.raised /\ r.table = integrations)
        /\ (c = NULL \/ Owns(u, c))
           => (/\ ~r.raised
               /\ Cardinality(added) = 1
               /\ integrations \subseteq r.table
               /\ \A i \in added :
                    /\ i.user_id = u /\ i.secret_id = c /\ i.service_type = provider
                    /\ c = NULL => i.status = "pending"
                    /\ c # NULL => i.status \in {"connected", "error"}
                    /\ (c # NULL /\ ~ok) => i.status = "error"
                    /\ (c # NULL /\ ok /\ usable) => i.status = "connected")

\* a user's request with another user's secret was refused after the
\* owner's request with the same secret, whose profile call failed, had
\* stored an integration in error
C25_Witness ==
  /\ resp.op = "create_provider_integration"
  /\ resp.ret = "credential_not_found_or_access_denied"
  /\ HasRow(secrets, resp.target)
  /\ RowOf(secrets, resp.target).user_id # resp.user
  /\ Cardinality(integrations) = 1
  /\ \E i \in integrations :
       /\ i.status = "error"
       /\ i.secret_id = resp.target
       /\ i.user_id = RowOf(secrets, resp.target).user_id

\* the integration i of the request that was answered last
Requested(i) == i.id = resp'.target /\ i.user_id = resp'.user

\* C26: a read or sync for user u that gets as far as a provider client
\* built it from a secret of u, and an integration whose secret_id names a
\* stored secret of another user fails with 'Credentials access denied'.
C26_NoForeignSecretUsed ==
  [][resp'.op \in {"get_client", "sync"}
     => (/\ (resp'.ret = "ok" \/ "verified" \in resp'.trace)
            => Owns(resp'.user, resp'.secret_id)
         /\ \A i \in integrations :
              (/\ Requested(i)
               /\ i.service_type = provider
               /\ HasRow(secrets, i.secret_id)
               /\ ~Owns(i.user_id, i.secret_id))
              => resp'.ret = "access_denied")]_vars

\* an integration bound to another user's usable secret was refused
C26_Witness ==
  /\ resp.op = "get_client"
  /\ resp.ret = "access_denied"
  /\ \E i \in integrations :
       /\ i.id = resp.target /\ i.user_id = resp.user
       /\ HasRow(secrets, i.secret_id)
       /\ RowOf(secrets, i.secret_id).user_id # i.user_id
       /\ find_by_id(secrets, i.secret_id).encrypted_value = json_dumps(UsablePayload(provider))


(***************************************************************************)
(* Error answers of the generic integrations endpoints (C27 under          *)
(* SpecStore).                                                             *)
(***************************************************************************)
GenericWrites == {"post_integration", "put_integration", "delete_integration_generic"}

\* C27: whenever POST /integrations, PUT /integrations/{id} or
\* DELETE /integrations/{id} answers with an error status, the integrations
\* table is the same as before the request.
C27_ErrorLeavesTableUnchanged ==
  [][(resp'.op \in GenericWrites /\ resp'.status >= 400)
     => integrations' = integrations]_vars


(***************************************************************************)
(* Provider delete endpoints (C28 under SpecEndpoints).                    *)
(***************************************************************************)
\* C28: DELETE /email/integrations/{id}, /github/integrations/{id} and
\* /messages/integrations/{id} never delete an integration whose
\* service_type is not gmail, github or slack respectively.
C28_DeleteOnlyOwnProvider ==
  [][\A p \in Providers :
       resp'.op = DeleteOp(p)
       => \A i \in integrations : i.service_type # p => i \in integrations']_vars


(***************************************************************************)
(* Updates that carry no payload (C29 under SpecEncryption).               *)
(***************************************************************************)
Undecryptable(token) == token.key # MasterKey

\* C29: update_secret by the owner with data that has no 'datos_secrets'
\* key leaves the payload found by find_by_id as it was, and does not
\* overwrite a stored ciphertext that cannot be decrypted.
C29_RenameKeepsPayload ==
  [][(resp'.op = "update_secret" /\ resp'.status = 200)
     => /\ find_by_id(secrets', resp'.target).encrypted_value
           = find_by_id(secrets, resp'.target).encrypted_value
        /\ Undecryptable(RowOf(secrets, resp'.target).encrypted_value)
           => RowOf(secrets', resp'.target).encrypted_value
              = RowOf(secrets, resp'.target).encrypted_value]_vars


(***************************************************************************)
(* Two callbacks of a user without an integration (C30 under               *)
(* SpecFirstConnect).                                                      *)
(***************************************************************************)
BothConnected ==
  /\ \A c \in CallIds : calls[c].pc = "done" /\ calls[c].result.oauth_success
  /\ calls[1].user_id = calls[2].user_id

\* C30: when two callbacks of one user have run, concurrently or one after
\* the other, starting without an integration of that type, the user has
\* exactly one integration row of that service_type.
C30_OneRowAfterTwoCallbacks ==
  BothConnected
  => Cardinality(OwnIntegrations(integrations, calls[1].user_id, "github")) = 1

=============================================================================
